---- MODULE Spec2Model ----
(***************************************************************************)
(* sqlsift: the inline directive scanner of the core analyzer              *)
(* (crates/sqlsift-core/src/analyzer/comment_directives.rs) and the        *)
(* document / catalog handlers of the language-server front-end            *)
(* (crates/sqlsift-lsp/src/server.rs, state.rs).                           *)
(*                                                                         *)
(* Several specifications share the module:                                *)
(*   SpecDirectives  InlineDirectives::parse run line by line over every   *)
(*                   text of at most MaxLines lines drawn from InputLines; *)
(*   Spec            the handlers of Backend interleaved at their await    *)
(*                   points over the RwLock<ServerState>;                  *)
(*   SpecAnalyzer    Analyzer::analyze called again and again on one       *)
(*                   analyzer, over statements of at most MaxDepth nested  *)
(*                   subqueries;                                           *)
(*   SpecFunctions   the functions of diagnostics.rs, the dialect, the     *)
(*                   schema builder, rebuild_catalog and the type checker  *)
(*                   called one at a time on bounded inputs;               *)
(*   SpecSession     the handlers from a session in progress, documents    *)
(*                   open and initialize and initialized long returned;    *)
(*   SpecLateSessionFair  such a session one task later, every handler     *)
(*                   taking the steps it can take;                         *)
(*   SpecInTurn      the document notifications handled one at a time,     *)
(*                   each handler returning before the next message.       *)
(* A text is held as the sequence of the items `sql.lines()` yields; a     *)
(* line is a sequence of one-character strings, offsets are 0-based as in  *)
(* the source (bytes[i] is line[i + 1]).                                   *)
(***************************************************************************)
EXTENDS Integers, Sequences, FiniteSets, TLC

VARIABLES
    \* ---- InlineDirectives::parse ----
    sql,             \* the lines of the text handed to parse
    parsed,          \* whether parse has returned its InlineDirectives
    disabled_lines,  \* InlineDirectives.disabled_lines
    \* ---- Backend ----
    state,            \* the ServerState inside the RwLock
    lock,             \* who holds a guard of the RwLock
    handlers,         \* the handler tasks and where each one is
    lifecycle,        \* new, initializing, initialized, running
    client_documents, \* the text the client holds of each document it has open
    disk,             \* the schema file as it is on disk
    published,        \* the diagnostics last published for each URI
    \* ---- Analyzer ----
    catalog,          \* the catalog the analyzer borrows
    analyzer,         \* the Analyzer: ambient CTE map, scope stack, diagnostics
    entered,          \* the Analyzer as the last call of analyze found it
    query,            \* the query of the statement last handed to analyze
    resolved,         \* the diagnostics of the resolver, before the filter
    diagnostics,      \* the diagnostics analyze returned
    \* ---- functions called on their own ----
    call,             \* the function last called and its arguments
    returned          \* what that call returned

dirVars == <<sql, parsed, disabled_lines>>
serverVars == <<state, lock, handlers, lifecycle, client_documents, disk, published>>
analyzerVars == <<catalog, analyzer, entered, query, resolved, diagnostics>>
functionVars == <<call, returned>>
coreVars == <<dirVars, analyzerVars, functionVars>>
vars == <<sql, parsed, disabled_lines,
          state, lock, handlers, lifecycle, client_documents, disk, published,
          catalog, analyzer, entered, query, resolved, diagnostics,
          call, returned>>

(***************************************************************************)
(* Bounds                                                                  *)
(***************************************************************************)
MaxLines == 4
MaxHandlers == 4
MaxDepth == 1

(***************************************************************************)
(* Characters and string helpers (Rust std: str::trim, starts_with,        *)
(* strip_prefix, split, to_uppercase, char::is_whitespace)                 *)
(***************************************************************************)
KEYWORD == <<"s","q","l","s","i","f","t",":","d","i","s","a","b","l","e">>

DASHES == <<"-", "-">>

LowerLetters == <<"a","b","c","d","e","f","g","h","i","j","k","l","m",
                  "n","o","p","q","r","s","t","u","v","w","x","y","z">>
UpperLetters == <<"A","B","C","D","E","F","G","H","I","J","K","L","M",
                  "N","O","P","Q","R","S","T","U","V","W","X","Y","Z">>

is_whitespace(c) == c \in {" ", "\t"}

RECURSIVE trim_start(_)
trim_start(s) ==
    IF s # <<>> /\ is_whitespace(Head(s)) THEN trim_start(Tail(s)) ELSE s

RECURSIVE trim_end(_)
trim_end(s) ==
    IF s # <<>> /\ is_whitespace(s[Len(s)])
    THEN trim_end(SubSeq(s, 1, Len(s) - 1))
    ELSE s

trim(s) == trim_end(trim_start(s))

starts_with(s, p) == Len(s) >= Len(p) /\ SubSeq(s, 1, Len(p)) = p

\* the remainder after the prefix; used only where starts_with holds
strip_prefix(s, p) == SubSeq(s, Len(p) + 1, Len(s))

char_to_uppercase(c) ==
    IF \E k \in 1..Len(LowerLetters) : LowerLetters[k] = c
    THEN UpperLetters[CHOOSE k \in 1..Len(LowerLetters) : LowerLetters[k] = c]
    ELSE c

RECURSIVE to_uppercase(_)
to_uppercase(s) ==
    IF s = <<>> THEN <<>>
    ELSE <<char_to_uppercase(Head(s))>> \o to_uppercase(Tail(s))

\* str::split on a set of separator characters: the pieces between
\* separators, empty pieces included
RECURSIVE split(_, _)
split(s, seps) ==
    IF \E i \in 1..Len(s) : s[i] \in seps
    THEN LET i == CHOOSE k \in 1..Len(s) :
                      /\ s[k] \in seps
                      /\ \A j \in 1..(k - 1) : s[j] \notin seps
         IN  <<SubSeq(s, 1, i - 1)>> \o split(SubSeq(s, i + 1, Len(s)), seps)
    ELSE <<s>>

(***************************************************************************)
(* Option<Option<HashSet<String>>> and Option<HashSet<String>>             *)
(*   NoDirective     None                                                  *)
(*   AllRules        Some(None)           (every rule)                     *)
(*   SomeCodes(S)    Some(Some(S))                                         *)
(* A map entry (Option<HashSet<String>>) uses the last two shapes.         *)
(***************************************************************************)
NoDirective == [some |-> FALSE, all |-> FALSE, codes |-> {}]
AllRules == [some |-> TRUE, all |-> TRUE, codes |-> {}]
SomeCodes(S) == [some |-> TRUE, all |-> FALSE, codes |-> S]

(***************************************************************************)
(* find_line_comment: the 0-based offset of the first `--` outside a       *)
(* quoted run of the line, or -1 for None                                  *)
(***************************************************************************)
\* inner loop of the b'\'' arm; i is the offset after the opening quote
RECURSIVE skip_single_quoted(_, _)
skip_single_quoted(bytes, i) ==
    IF i < Len(bytes)
    THEN IF bytes[i + 1] = "'"
         THEN IF i + 1 < Len(bytes) /\ bytes[i + 2] = "'"
              THEN skip_single_quoted(bytes, i + 2)   \* escaped quote
              ELSE i + 1
         ELSE skip_single_quoted(bytes, i + 1)
    ELSE i

\* inner loop of the b'"' arm; i is the offset after the opening quote
RECURSIVE skip_double_quoted(_, _)
skip_double_quoted(bytes, i) ==
    IF i < Len(bytes) /\ bytes[i + 1] # "\""
    THEN skip_double_quoted(bytes, i + 1)
    ELSE IF i < Len(bytes) THEN i + 1 ELSE i

RECURSIVE find_line_comment_from(_, _)
find_line_comment_from(bytes, i) ==
    IF i < Len(bytes)
    THEN CASE bytes[i + 1] = "'" ->
                find_line_comment_from(bytes, skip_single_quoted(bytes, i + 1))
           [] bytes[i + 1] = "\"" ->
                find_line_comment_from(bytes, skip_double_quoted(bytes, i + 1))
           [] bytes[i + 1] = "-" /\ i + 1 < Len(bytes) /\ bytes[i + 2] = "-" ->
                i
           [] OTHER ->
                find_line_comment_from(bytes, i + 1)
    ELSE -1

\* find_line_comment with the start of the line taken to be inside a
\* single-quoted string
find_line_comment_in_string(line) ==
    find_line_comment_from(line, skip_single_quoted(line, 0))

find_line_comment(line) == find_line_comment_from(line, 0)

(***************************************************************************)
(* parse_directive_from_line                                               *)
(***************************************************************************)
\* lines 84-89: split on ',' and ' ', trim, drop empties, upper-case, collect
collect_codes(rest) ==
    LET pieces == split(rest, {",", " "})
    IN  { to_uppercase(trim(pieces[k])) :
            k \in { j \in 1..Len(pieces) : trim(pieces[j]) # <<>> } }

\* parse_directive_from_line without the check of line 80: the keyword may
\* be followed by any character
parse_directive_from_line_no_boundary(line) ==
    LET comment_start == find_line_comment(line)
    IN  IF comment_start = -1 THEN NoDirective
        ELSE LET comment == SubSeq(line, comment_start + 3, Len(line))
                 trimmed == trim(comment)
             IN  IF ~starts_with(trimmed, KEYWORD) THEN NoDirective
                 ELSE LET rest == strip_prefix(trimmed, KEYWORD)
                      IN  IF rest = <<>> THEN AllRules
                          ELSE IF collect_codes(rest) = {} THEN AllRules
                          ELSE SomeCodes(collect_codes(rest))

parse_directive_from_line(line) ==
    LET comment_start == find_line_comment(line)
    IN  IF comment_start = -1 THEN NoDirective
        ELSE LET comment == SubSeq(line, comment_start + 3, Len(line))
                 trimmed == trim(comment)
             IN  IF ~starts_with(trimmed, KEYWORD) THEN NoDirective
                 ELSE LET rest == strip_prefix(trimmed, KEYWORD)
                      IN  IF rest = <<>> THEN AllRules
                          ELSE IF ~is_whitespace(rest[1]) THEN NoDirective
                          ELSE IF collect_codes(rest) = {} THEN AllRules
                          ELSE SomeCodes(collect_codes(rest))

(***************************************************************************)
(* merge_codes, merge_into_map, is_suppressed                              *)
(***************************************************************************)
\* merge_codes in which codes merged into `all rules` replace it
merge_codes_narrowing(existing, new) ==
    IF new.all THEN AllRules
    ELSE IF existing.all THEN new
    ELSE SomeCodes(existing.codes \cup new.codes)

merge_codes(existing, new) ==
    IF new.all THEN AllRules
    ELSE IF existing.all THEN existing
    ELSE SomeCodes(existing.codes \cup new.codes)

merge_into_map(map, line, codes) ==
    IF line \in DOMAIN map
    THEN [map EXCEPT ![line] = merge_codes(map[line], codes)]
    ELSE (line :> codes) @@ map

\* is_suppressed without the look at the codes of a line that has some
is_suppressed_in_any_code(map, code, line) ==
    line \in DOMAIN map

is_suppressed_in(map, code, line) ==
    IF line \in DOMAIN map
    THEN IF map[line].all THEN TRUE ELSE code \in map[line].codes
    ELSE FALSE

is_suppressed(code, line) == is_suppressed_in(disabled_lines, code, line)

(***************************************************************************)
(* Input texts: the lines a text is drawn from                             *)
(***************************************************************************)
E0001 == <<"E","0","0","0","1">>
E0002 == <<"E","0","0","0","2">>
E0003 == <<"E","0","0","0","3">>
E9999 == <<"E","9","9","9","9">>
e0001 == <<"e","0","0","0","1">>
e0002 == <<"e","0","0","0","2">>

SELECTX == <<"S","E","L","E","C","T"," ","x">>

\* ` `                                         blank
L_BLANK == <<" ">>
\* `SELECT x`                                  SQL, no comment
L_SQL == SELECTX
\* `-- sqlsift:disable E0001`                  standalone directive
L_SA_E1 == DASHES \o <<" ">> \o KEYWORD \o <<" ">> \o E0001
\* ` --sqlsift:disable e0002,E0003`            standalone, lower case, two codes
L_SA_LOWER == <<" ">> \o DASHES \o KEYWORD \o <<" ">> \o e0002 \o <<",">> \o E0003
\* `-- sqlsift:disable`                        standalone, no codes
L_SA_ALL == DASHES \o <<" ">> \o KEYWORD
\* `SELECT x -- sqlsift:disable E0002`         inline directive
L_IN_E2 == SELECTX \o <<" ">> \o DASHES \o <<" ">> \o KEYWORD \o <<" ">> \o E0002
\* `SELECT x -- sqlsift:disable,`              keyword followed by a comma only
L_IN_COMMA == SELECTX \o <<" ">> \o DASHES \o <<" ">> \o KEYWORD \o <<",">>
\* `-- sqlsift:disabled E0001`                 standalone comment, not a directive
L_NOT_SA == DASHES \o <<" ">> \o KEYWORD \o <<"d"," ">> \o E0001
\* `SELECT x -- no sqlsift:disable E0002`      comment not beginning with the keyword
L_NOT_IN == SELECTX \o <<" ">> \o DASHES \o <<" ","n","o"," ">> \o KEYWORD
              \o <<" ">> \o E0002
\* `SELECT 'a`                                 opens a string that spans lines
L_OPEN == <<"S","E","L","E","C","T"," ","'","a">>
\* SELECT, a string holding `-- sqlsift:disable E0002` and an escaped quote,
\* then the real comment `-- sqlsift:disable e0001` after the closing quote
L_ESC == <<"S","E","L","E","C","T"," ","'">> \o DASHES \o <<" ">> \o KEYWORD
           \o <<" ">> \o E0002 \o <<"'","'","'"," ">> \o DASHES \o <<" ">>
           \o KEYWORD \o <<" ">> \o e0001
\* `SELECT "a--b" -- sqlsift:disable , `       quoted identifier; no codes,
\*                                             separators only
L_DQ == <<"S","E","L","E","C","T"," ","\"","a">> \o DASHES \o <<"b","\""," ">>
          \o DASHES \o <<" ">> \o KEYWORD \o <<" ",","," ">>

InputLines == { L_BLANK, L_SQL, L_SA_E1, L_SA_LOWER, L_SA_ALL, L_IN_E2,
                L_IN_COMMA, L_NOT_SA, L_NOT_IN, L_OPEN, L_ESC, L_DQ }

InputTexts == UNION { [1..n -> InputLines] : n \in 0..MaxLines }

(***************************************************************************)
(* InlineDirectives::parse                                                 *)
(***************************************************************************)
\* the locals of parse before the first iteration of the for loop
parse_start == [disabled_lines |-> <<>>, pending_codes |-> NoDirective]

\* line.trim() and parse_directive_from_line(line), both pure in the line,
\* tabulated once over the input lines
trimmed_of == [l \in InputLines |-> trim(l)]
directive_of == [l \in InputLines |-> parse_directive_from_line(l)]

\* parse_line without the branch of lines 38-41: a directive after SQL is
\* kept pending like one on a standalone comment line
parse_line_inline_pending(st, line, line_num) ==
    LET trimmed == trimmed_of[line]
        codes == directive_of[line]
    IN  IF codes.some
        THEN [st EXCEPT !.pending_codes =
                    IF st.pending_codes.some
                    THEN merge_codes(st.pending_codes, codes)
                    ELSE codes]
        ELSE IF st.pending_codes.some /\ trimmed # <<>>
                   /\ ~starts_with(trimmed, DASHES)
             THEN [disabled_lines |->
                        merge_into_map(st.disabled_lines, line_num, st.pending_codes),
                   pending_codes |-> NoDirective]
             ELSE st

\* parse_line with pending_codes read where line 44 takes it: the pending
\* codes are applied and stay pending
parse_line_keeping_pending(st, line, line_num) ==
    LET trimmed == trimmed_of[line]
        codes == directive_of[line]
    IN  IF codes.some
        THEN IF starts_with(trimmed, DASHES)
             THEN [st EXCEPT !.pending_codes =
                        IF st.pending_codes.some
                        THEN merge_codes(st.pending_codes, codes)
                        ELSE codes]
             ELSE [st EXCEPT !.disabled_lines =
                        merge_into_map(st.disabled_lines, line_num, codes)]
        ELSE IF st.pending_codes.some /\ trimmed # <<>>
                   /\ ~starts_with(trimmed, DASHES)
             THEN [st EXCEPT !.disabled_lines =
                        merge_into_map(st.disabled_lines, line_num, st.pending_codes)]
             ELSE st

\* parse_line with the pending codes applied to every non-empty, non-comment
\* line, one that has a directive of its own included
parse_line_inline_consumes(st, line, line_num) ==
    LET trimmed == trimmed_of[line]
        codes == directive_of[line]
    IN  IF codes.some
        THEN IF starts_with(trimmed, DASHES)
             THEN [st EXCEPT !.pending_codes =
                        IF st.pending_codes.some
                        THEN merge_codes(st.pending_codes, codes)
                        ELSE codes]
             ELSE IF st.pending_codes.some
             THEN [disabled_lines |->
                        merge_into_map(
                            merge_into_map(st.disabled_lines, line_num, codes),
                            line_num, st.pending_codes),
                   pending_codes |-> NoDirective]
             ELSE [st EXCEPT !.disabled_lines =
                        merge_into_map(st.disabled_lines, line_num, codes)]
        ELSE IF st.pending_codes.some /\ trimmed # <<>>
                   /\ ~starts_with(trimmed, DASHES)
             THEN [disabled_lines |->
                        merge_into_map(st.disabled_lines, line_num, st.pending_codes),
                   pending_codes |-> NoDirective]
             ELSE st

\* one iteration of the for loop: st holds the locals, line_num = idx + 1
parse_line(st, line, line_num) ==
    LET trimmed == trimmed_of[line]
        codes == directive_of[line]
    IN  IF codes.some
        THEN IF starts_with(trimmed, DASHES)
             THEN [st EXCEPT !.pending_codes =
                        IF st.pending_codes.some
                        THEN merge_codes(st.pending_codes, codes)
                        ELSE codes]
             ELSE [st EXCEPT !.disabled_lines =
                        merge_into_map(st.disabled_lines, line_num, codes)]
        ELSE IF st.pending_codes.some /\ trimmed # <<>>
                   /\ ~starts_with(trimmed, DASHES)
             THEN [disabled_lines |->
                        merge_into_map(st.disabled_lines, line_num, st.pending_codes),
                   pending_codes |-> NoDirective]
             ELSE st

\* the locals of parse after the first k iterations over lines
RECURSIVE parse_loop(_, _)
parse_loop(lines, k) ==
    IF k = 0 THEN parse_start
    ELSE parse_line(parse_loop(lines, k - 1), lines[k], k)

(***************************************************************************)
(* The language-server front-end: Backend over Arc<RwLock<ServerState>>    *)
(*                                                                         *)
(* Every call of a LanguageServer method is a handler: a task of the       *)
(* runtime that the other handlers interleave with at its await points     *)
(* (state.read().await, state.write().await, client.publish_diagnostics    *)
(* (..).await, client.log_message(..).await).  handlers[h].pc names the    *)
(* await point handler h is at; a step runs the code up to the next one.   *)
(* A guard taken and dropped with no await in between is one step.         *)
(***************************************************************************)
Handlers == 1..MaxHandlers

QUERY_URI == "file:///w/q.sql"
SCHEMA_URI == "file:///w/schema.sql"
Uris == {QUERY_URI, SCHEMA_URI}
Texts == {"t1", "t2"}
NoText == "none"
NoUri == "none"
NoChange == "no content change"
WORKSPACE_ROOT == "/w"

\* the sqlsift.toml that Config::find_from_root finds, when it finds one
ConfigFile ==
    [dialect |-> "mysql", disable |-> {"E0002"}, schema |-> <<SCHEMA_URI>>]

\* Catalog::default(), and the catalog a builder with no input builds
EmptyCatalog == [version |-> 0, parses |-> TRUE]

\* ServerState::new()
ServerState_new ==
    [catalog |-> EmptyCatalog,
     dialect |-> "postgresql",
     disabled_rules |-> {},
     open_documents |-> <<>>,
     schema_files |-> <<>>,
     workspace_root |-> "none"]

\* what the client has been shown for a URI
NothingPublished ==
    [kind |-> "nothing", text |-> NoText, catalog |-> EmptyCatalog,
     dialect |-> "none", disabled |-> {}]
EmptyList == [NothingPublished EXCEPT !.kind = "empty"]

\* state.analyze_document(text) passed through to_lsp_diagnostics with
\* state.disabled_rules: the list is a function of the text, the catalog, the
\* dialect and the disabled rules, and is held as those four
lsp_diagnostics_of(st, text) ==
    [kind |-> "analysis", text |-> text, catalog |-> st.catalog,
     dialect |-> st.dialect, disabled |-> st.disabled_rules]

is_schema_file(st, path) ==
    \E i \in 1..Len(st.schema_files) : st.schema_files[i] = path

\* the builder's result over state.schema_files read from the disk: the
\* catalog, and the number of error strings
build_catalog(st, files) ==
    IF Len(st.schema_files) = 0
    THEN [catalog |-> EmptyCatalog, errors |-> 0]
    ELSE [catalog |-> files, errors |-> IF files.parses THEN 0 ELSE 1]

Idle ==
    [pc |-> "idle", kind |-> "none", uri |-> NoUri, text |-> NoText,
     errors |-> 0, snapshot |-> {}, diagnostics |-> NothingPublished]
Done == [Idle EXCEPT !.pc = "done"]
NewHandler(kind, pc, uri, text) ==
    [Idle EXCEPT !.pc = pc, !.kind = kind, !.uri = uri, !.text = text]

Running(h) == handlers[h].pc \notin {"idle", "done"}

\* the runtime starts the handler of the next message in the first free task
FreeSlot ==
    CHOOSE h \in Handlers :
        /\ handlers[h].pc = "idle"
        /\ \A g \in Handlers : g < h => handlers[g].pc # "idle"
Spawn(rec) ==
    /\ \E h \in Handlers : handlers[h].pc = "idle"
    /\ handlers' = [handlers EXCEPT ![FreeSlot] = rec]

\* tokio::sync::RwLock: one writer, or any number of readers
can_read == lock.writer = 0
can_write == lock.writer = 0 /\ lock.readers = {}

InitServer ==
    /\ state = ServerState_new
    /\ lock = [writer |-> 0, readers |-> {}]
    /\ handlers = [h \in Handlers |-> Idle]
    /\ lifecycle = "new"
    /\ client_documents = [u \in Uris |-> NoText]
    /\ disk = [version |-> 1, parses |-> TRUE]
    /\ published = [u \in Uris |-> NothingPublished]

\* ---- initialize ----
initialize(has_root) ==
    /\ lifecycle = "new"
    /\ lifecycle' = "initializing"
    /\ Spawn(NewHandler("initialize",
                        IF has_root THEN "write_config" ELSE "respond",
                        NoUri, NoText))
    /\ UNCHANGED <<coreVars, state, lock, client_documents, disk, published>>

initialize_write(h) ==
    /\ handlers[h].pc = "write_config"
    /\ can_write
    /\ lock' = [lock EXCEPT !.writer = h]
    /\ handlers' = [handlers EXCEPT ![h].pc = "load_config"]
    /\ UNCHANGED <<coreVars, state, lifecycle, client_documents, disk, published>>

\* state.load_config(&path) under the write guard; found: whether
\* Config::find_from_root finds a configuration file
load_config(h, found) ==
    /\ handlers[h].pc = "load_config"
    /\ state' = IF found
                THEN [state EXCEPT !.workspace_root = WORKSPACE_ROOT,
                                   !.dialect = ConfigFile.dialect,
                                   !.disabled_rules = ConfigFile.disable,
                                   !.schema_files = ConfigFile.schema]
                ELSE [state EXCEPT !.workspace_root = WORKSPACE_ROOT]
    /\ lock' = [lock EXCEPT !.writer = 0]
    /\ handlers' = [handlers EXCEPT ![h].pc = "respond"]
    /\ UNCHANGED <<coreVars, lifecycle, client_documents, disk, published>>

initialize_respond(h) ==
    /\ handlers[h].pc = "respond"
    /\ handlers' = [handlers EXCEPT ![h] = Done]
    /\ lifecycle' = "initialized"
    /\ UNCHANGED <<coreVars, state, lock, client_documents, disk, published>>

\* ---- initialized ----
initialized ==
    /\ lifecycle = "initialized"
    /\ lifecycle' = "running"
    /\ Spawn(NewHandler("initialized", "write_catalog", NoUri, NoText))
    /\ UNCHANGED <<coreVars, state, lock, client_documents, disk, published>>

\* a rebuild that empties the catalog in place and fills it with no guard held
rebuild_write_in_place(h) ==
    /\ handlers[h].pc = "write_catalog"
    /\ state' = [state EXCEPT !.catalog = [version |-> -1, parses |-> FALSE]]
    /\ handlers' = [handlers EXCEPT ![h].pc = "rebuild"]
    /\ UNCHANGED <<coreVars, lock, lifecycle, client_documents, disk, published>>

\* let mut state = self.state.write().await, of initialized and of did_save
rebuild_write(h) ==
    /\ handlers[h].pc = "write_catalog"
    /\ can_write
    /\ lock' = [lock EXCEPT !.writer = h]
    /\ handlers' = [handlers EXCEPT ![h].pc = "rebuild"]
    /\ UNCHANGED <<coreVars, state, lifecycle, client_documents, disk, published>>

\* state.rebuild_catalog() under the write guard, which the block then drops
rebuild_catalog(h) ==
    /\ handlers[h].pc = "rebuild"
    /\ LET built == build_catalog(state, disk)
       IN  /\ state' = [state EXCEPT !.catalog = built.catalog]
           /\ handlers' = [handlers EXCEPT
                    ![h].errors = built.errors,
                    ![h].pc = IF handlers[h].kind = "initialized" THEN "count"
                              ELSE IF built.errors > 0 THEN "log_errors"
                              ELSE "log_info"]
    /\ lock' = [lock EXCEPT !.writer = 0]
    /\ UNCHANGED <<coreVars, lifecycle, client_documents, disk, published>>

\* self.state.read().await.schema_files.len()
initialized_count(h) ==
    /\ handlers[h].pc = "count"
    /\ can_read
    /\ handlers' = [handlers EXCEPT ![h].pc = "log_info"]
    /\ UNCHANGED <<coreVars, state, lock, lifecycle, client_documents, disk, published>>

\* client.log_message(MessageType::INFO, ..).await
log_message_info(h) ==
    /\ handlers[h].pc = "log_info"
    /\ handlers' = [handlers EXCEPT ![h] =
            IF handlers[h].kind = "did_save"
            THEN [handlers[h] EXCEPT !.pc = "snapshot"]
            ELSE IF handlers[h].errors > 0
            THEN [handlers[h] EXCEPT !.pc = "log_errors"]
            ELSE Done]
    /\ UNCHANGED <<coreVars, state, lock, lifecycle, client_documents, disk, published>>

\* for error in errors { client.log_message(MessageType::WARNING, error).await }
log_message_warning(h) ==
    /\ handlers[h].pc = "log_errors"
    /\ handlers[h].errors > 0
    /\ handlers' = [handlers EXCEPT ![h] =
            IF handlers[h].errors > 1
            THEN [handlers[h] EXCEPT !.errors = @ - 1]
            ELSE IF handlers[h].kind = "did_save"
            THEN [handlers[h] EXCEPT !.errors = 0, !.pc = "log_info"]
            ELSE Done]
    /\ UNCHANGED <<coreVars, state, lock, lifecycle, client_documents, disk, published>>

\* ---- did_open, did_change ----
did_open(uri, text) ==
    /\ lifecycle = "running"
    /\ client_documents[uri] = NoText
    /\ client_documents' = [client_documents EXCEPT ![uri] = text]
    /\ Spawn(NewHandler("did_open", "insert", uri, text))
    /\ UNCHANGED <<coreVars, state, lock, lifecycle, disk, published>>

\* change: the text of the first content change, or NoChange when
\* params.content_changes is empty
did_change(uri, change) ==
    /\ lifecycle = "running"
    /\ client_documents[uri] # NoText
    /\ IF change = NoChange
       THEN /\ Spawn(Done)
            /\ UNCHANGED client_documents
       ELSE /\ Spawn(NewHandler("did_change", "insert", uri, change))
            /\ client_documents' = [client_documents EXCEPT ![uri] = change]
    /\ UNCHANGED <<coreVars, state, lock, lifecycle, disk, published>>

\* a did_change that writes the text of an open document only
insert_document_if_open(h) ==
    /\ handlers[h].pc = "insert"
    /\ can_write
    /\ state' = [state EXCEPT !.open_documents =
                    IF handlers[h].kind = "did_change"
                        /\ handlers[h].uri \notin DOMAIN @
                    THEN @
                    ELSE (handlers[h].uri :> handlers[h].text) @@ @]
    /\ handlers' = [handlers EXCEPT ![h].pc = "analyze"]
    /\ UNCHANGED <<coreVars, lock, lifecycle, client_documents, disk, published>>

\* { let mut state = self.state.write().await;
\*   state.open_documents.insert(uri.clone(), text.clone()); }
insert_document(h) ==
    /\ handlers[h].pc = "insert"
    /\ can_write
    /\ state' = [state EXCEPT !.open_documents =
                    (handlers[h].uri :> handlers[h].text) @@ @]
    /\ handlers' = [handlers EXCEPT ![h].pc = "analyze"]
    /\ UNCHANGED <<coreVars, lock, lifecycle, client_documents, disk, published>>

\* an analysis that takes the write guard
publish_diagnostics_for_analyze_write(h) ==
    /\ handlers[h].pc = "analyze"
    /\ can_write
    /\ lock' = [lock EXCEPT !.writer = h]
    /\ handlers' = [handlers EXCEPT
            ![h].diagnostics = lsp_diagnostics_of(state, handlers[h].text),
            ![h].pc = "publish"]
    /\ UNCHANGED <<coreVars, state, lifecycle, client_documents, disk, published>>

\* an analysis that writes what it learned into the state it reads
publish_diagnostics_for_analyze_caching(h) ==
    /\ handlers[h].pc = "analyze"
    /\ can_read
    /\ lock' = [lock EXCEPT !.readers = @ \cup {h}]
    /\ handlers' = [handlers EXCEPT
            ![h].diagnostics = lsp_diagnostics_of(state, handlers[h].text),
            ![h].pc = "publish"]
    /\ state' = [state EXCEPT !.catalog.version = @ + 1]
    /\ UNCHANGED <<coreVars, lifecycle, client_documents, disk, published>>

\* ---- publish_diagnostics_for ----
\* let state = self.state.read().await; the analysis; then the handler awaits
\* client.publish_diagnostics with `state` still in scope
publish_diagnostics_for_analyze(h) ==
    /\ handlers[h].pc = "analyze"
    /\ can_read
    /\ lock' = [lock EXCEPT !.readers = @ \cup {h}]
    /\ handlers' = [handlers EXCEPT
            ![h].diagnostics = lsp_diagnostics_of(state, handlers[h].text),
            ![h].pc = "publish"]
    /\ UNCHANGED <<coreVars, state, lifecycle, client_documents, disk, published>>

\* a reanalysis that returns after the first document of its snapshot
publish_diagnostics_for_publish_first_only(h) ==
    /\ handlers[h].pc = "publish"
    /\ published' = [published EXCEPT ![handlers[h].uri] = handlers[h].diagnostics]
    /\ lock' = [lock EXCEPT !.readers = @ \ {h}]
    /\ handlers' = [handlers EXCEPT ![h] = Done]
    /\ UNCHANGED <<coreVars, state, lifecycle, client_documents, disk>>

\* client.publish_diagnostics(..).await completes and the function returns,
\* dropping `state`; a reanalysis goes on with the next snapshotted document
\* (uris_and_texts comes from a HashMap: its order is any order)
publish_diagnostics_for_publish(h) ==
    /\ handlers[h].pc = "publish"
    /\ published' = [published EXCEPT ![handlers[h].uri] = handlers[h].diagnostics]
    /\ lock' = [lock EXCEPT !.readers = @ \ {h}]
    /\ \/ /\ handlers[h].snapshot = {}
          /\ handlers' = [handlers EXCEPT ![h] = Done]
       \/ \E d \in handlers[h].snapshot :
            handlers' = [handlers EXCEPT ![h] =
                [handlers[h] EXCEPT !.uri = d[1], !.text = d[2],
                                    !.snapshot = @ \ {d},
                                    !.diagnostics = NothingPublished,
                                    !.pc = "analyze"]]
    /\ UNCHANGED <<coreVars, state, lifecycle, client_documents, disk>>

\* ---- did_save ----
\* the client has written the document to its file; with_text: whether
\* params.text is Some; parses: whether a saved schema file parses
did_save(uri, with_text, parses) ==
    /\ lifecycle = "running"
    /\ client_documents[uri] # NoText
    /\ IF uri = SCHEMA_URI
       THEN disk' = [version |-> disk.version + 1, parses |-> parses]
       ELSE parses /\ UNCHANGED disk
    /\ Spawn(NewHandler("did_save", "check_schema", uri,
                        IF with_text THEN client_documents[uri] ELSE NoText))
    /\ UNCHANGED <<coreVars, state, lock, lifecycle, client_documents, published>>

\* a did_save whose read guard of the is_schema check lives to the end of
\* the function
did_save_is_schema_file_keeping_guard(h) ==
    /\ handlers[h].pc = "check_schema"
    /\ can_read
    /\ lock' = [lock EXCEPT !.readers = @ \cup {h}]
    /\ handlers' = [handlers EXCEPT ![h] =
            IF is_schema_file(state, handlers[h].uri)
            THEN [handlers[h] EXCEPT !.pc = "write_catalog"]
            ELSE IF handlers[h].text # NoText
            THEN [handlers[h] EXCEPT !.pc = "analyze"]
            ELSE Done]
    /\ UNCHANGED <<coreVars, state, lifecycle, client_documents, disk, published>>

\* let state = self.state.read().await; state.is_schema_file(&path)
did_save_is_schema_file(h) ==
    /\ handlers[h].pc = "check_schema"
    /\ can_read
    /\ handlers' = [handlers EXCEPT ![h] =
            IF is_schema_file(state, handlers[h].uri)
            THEN [handlers[h] EXCEPT !.pc = "write_catalog"]
            ELSE IF handlers[h].text # NoText
            THEN [handlers[h] EXCEPT !.pc = "analyze"]
            ELSE Done]
    /\ UNCHANGED <<coreVars, state, lock, lifecycle, client_documents, disk, published>>

\* a reanalysis that leaves the document it starts with in the remaining set
reanalyze_all_open_documents_twice(h) ==
    /\ handlers[h].pc = "snapshot"
    /\ can_read
    /\ LET uris_and_texts ==
            { <<u, state.open_documents[u]>> : u \in DOMAIN state.open_documents }
       IN  \/ /\ uris_and_texts = {}
              /\ handlers' = [handlers EXCEPT ![h] = Done]
           \/ \E d \in uris_and_texts :
                handlers' = [handlers EXCEPT ![h] =
                    [handlers[h] EXCEPT !.uri = d[1], !.text = d[2],
                                        !.snapshot = uris_and_texts,
                                        !.pc = "analyze"]]
    /\ UNCHANGED <<coreVars, state, lock, lifecycle, client_documents, disk, published>>

\* reanalyze_all_open_documents: the snapshot under a read guard
reanalyze_all_open_documents(h) ==
    /\ handlers[h].pc = "snapshot"
    /\ can_read
    /\ LET uris_and_texts ==
            { <<u, state.open_documents[u]>> : u \in DOMAIN state.open_documents }
       IN  \/ /\ uris_and_texts = {}
              /\ handlers' = [handlers EXCEPT ![h] = Done]
           \/ \E d \in uris_and_texts :
                handlers' = [handlers EXCEPT ![h] =
                    [handlers[h] EXCEPT !.uri = d[1], !.text = d[2],
                                        !.snapshot = uris_and_texts \ {d},
                                        !.pc = "analyze"]]
    /\ UNCHANGED <<coreVars, state, lock, lifecycle, client_documents, disk, published>>

\* ---- did_close ----
did_close(uri) ==
    /\ lifecycle = "running"
    /\ client_documents[uri] # NoText
    /\ client_documents' = [client_documents EXCEPT ![uri] = NoText]
    /\ Spawn(NewHandler("did_close", "remove", uri, NoText))
    /\ UNCHANGED <<coreVars, state, lock, lifecycle, disk, published>>

\* open_documents.clear() in the place of remove(&uri)
did_close_remove_all(h) ==
    /\ handlers[h].pc = "remove"
    /\ can_write
    /\ state' = [state EXCEPT !.open_documents = [u \in {} |-> NoText]]
    /\ handlers' = [handlers EXCEPT ![h].pc = "clear"]
    /\ UNCHANGED <<coreVars, lock, lifecycle, client_documents, disk, published>>

\* { let mut state = self.state.write().await;
\*   state.open_documents.remove(&uri); }
did_close_remove(h) ==
    /\ handlers[h].pc = "remove"
    /\ can_write
    /\ state' = [state EXCEPT !.open_documents =
                    [u \in (DOMAIN @) \ {handlers[h].uri} |-> @[u]]]
    /\ handlers' = [handlers EXCEPT ![h].pc = "clear"]
    /\ UNCHANGED <<coreVars, lock, lifecycle, client_documents, disk, published>>

\* self.client.publish_diagnostics(uri, vec![], None).await
did_close_clear(h) ==
    /\ handlers[h].pc = "clear"
    /\ published' = [published EXCEPT ![handlers[h].uri] = EmptyList]
    /\ handlers' = [handlers EXCEPT ![h] = Done]
    /\ UNCHANGED <<coreVars, state, lock, lifecycle, client_documents, disk>>

(***************************************************************************)
(* The analyzer: name resolution over a scope stack, then the filter of    *)
(* the inline directives                                                   *)
(*                                                                         *)
(* A statement is a text (for its directives) and a query: an optional     *)
(* WITH clause and a chain of SELECT blocks                                *)
(*     SELECT .. FROM from WHERE EXISTS (next block) AND ref               *)
(* where block k+1 is the subquery in the WHERE of block k and is resolved *)
(* before the column reference that follows it.  Block k is written on     *)
(* line k of the text.                                                     *)
(***************************************************************************)
E0004 == <<"E","0","0","0","4">>

c_id == <<"i","d">>
c_ID == <<"I","D">>
c_name == <<"n","a","m","e">>
c_user_id == <<"u","s","e","r","_","i","d">>
c_total == <<"t","o","t","a","l">>
c_bad == <<"b","a","d">>

t_users == <<"u","s","e","r","s">>
t_orders == <<"o","r","d","e","r","s">>
t_recent == <<"r","e","c","e","n","t">>
t_nosuch == <<"n","o","s","u","c","h">>
a_u == <<"u">>
a_o == <<"o">>
a_r == <<"r">>
a_n == <<"n">>

NoQualifier == <<>>

\* users(id, name), orders(id, user_id), and a relation `recent` that the
\* catalog knows as a view, and in one catalog as a table as well
CatalogTables ==
    (t_users :> <<c_id, c_name>>) @@ (t_orders :> <<c_id, c_user_id>>)
Catalogs ==
    { [tables |-> CatalogTables @@ (t_recent :> <<c_id>>),
       views |-> (t_recent :> <<c_user_id>>)],
      [tables |-> CatalogTables,
       views |-> (t_recent :> <<c_user_id>>)] }

\* WITH recent AS (SELECT .. AS total ..), nosuch AS (SELECT .. AS total ..)
NoWith == <<>>
WithClauses == { NoWith, (t_recent :> <<c_total>>) @@ (t_nosuch :> <<c_total>>) }

FromItem(name, alias) == [name |-> name, alias |-> alias]
FromLists ==
    { <<FromItem(t_users, a_u)>>,
      <<FromItem(t_users, a_u), FromItem(t_orders, a_o)>>,
      <<FromItem(t_recent, a_r)>>,
      <<FromItem(t_nosuch, a_n)>> }

ColumnRef(qualifier, column) == [qualifier |-> qualifier, column |-> column]
ColumnRefs ==
    { ColumnRef(NoQualifier, c_id), ColumnRef(NoQualifier, c_user_id),
      ColumnRef(NoQualifier, c_total),
      ColumnRef(a_u, c_ID), ColumnRef(a_o, c_bad) }

Blocks == [from : FromLists, ref : ColumnRefs]
Chains == UNION { [1..n -> Blocks] : n \in 1..(MaxDepth + 1) }

\* `SELECT x` twice; with E0002 disabled on line 1; with E0001 disabled on
\* line 2
AnalyzedTexts == { <<L_SQL, L_SQL>>, <<L_IN_E2, L_SQL>>, <<L_SQL, L_ESC>> }

Statements == [sql : AnalyzedTexts, with : WithClauses, blocks : Chains]

\* InlineDirectives::parse(sql) of each of these texts, tabulated once
directives_of == [t \in AnalyzedTexts |-> parse_loop(t, Len(t)).disabled_lines]
NoQuery == [with |-> NoWith, blocks |-> <<>>]

\* Analyzer::new(&catalog): no CTE, no frame, no diagnostic
Analyzer_new == [ctes |-> <<>>, scopes |-> <<>>, diagnostics |-> <<>>]

code_of(kind) ==
    CASE kind = "TableNotFound" -> E0001
      [] kind = "ColumnNotFound" -> E0002
      [] kind = "TypeMismatch" -> E0003
      [] kind = "AmbiguousColumn" -> E0004

Diagnostic(kind, name, line) ==
    [kind |-> kind, code |-> code_of(kind), name |-> name, line |-> line]

emit(a, d) == [a EXCEPT !.diagnostics = Append(@, d)]

\* the upper-case form of each column name of the inputs, tabulated once
ColumnNames == {c_id, c_ID, c_name, c_user_id, c_total, c_bad}
uppercase_of == [c \in ColumnNames |-> to_uppercase(c)]

eq_ignore_case(a, b) == uppercase_of[a] = uppercase_of[b]

has_column(binding, c) ==
    \E i \in 1..Len(binding.columns) : eq_ignore_case(binding.columns[i], c)

\* FROM-item resolution without the ambient CTE map
resolve_table_catalog_first(a, cat, item, line) ==
    LET bind(kind, columns) ==
            [a EXCEPT !.scopes[Len(a.scopes)] =
                Append(@, [name |-> item.alias, kind |-> kind, columns |-> columns])]
    IN  IF item.name \in DOMAIN cat.views
        THEN bind("view", cat.views[item.name])
        ELSE IF item.name \in DOMAIN cat.tables
        THEN bind("table", cat.tables[item.name])
        ELSE IF item.name \in DOMAIN a.ctes
        THEN bind("cte", a.ctes[item.name])
        ELSE emit(a, Diagnostic("TableNotFound", item.name, line))

\* FROM-item resolution: the ambient CTE map, the catalog's views, the
\* catalog's tables; the binding goes into the current frame
resolve_table(a, cat, item, line) ==
    LET bind(kind, columns) ==
            [a EXCEPT !.scopes[Len(a.scopes)] =
                Append(@, [name |-> item.alias, kind |-> kind, columns |-> columns])]
    IN  IF item.name \in DOMAIN a.ctes
        THEN bind("cte", a.ctes[item.name])
        ELSE IF item.name \in DOMAIN cat.views
        THEN bind("view", cat.views[item.name])
        ELSE IF item.name \in DOMAIN cat.tables
        THEN bind("table", cat.tables[item.name])
        ELSE emit(a, Diagnostic("TableNotFound", item.name, line))

RECURSIVE resolve_from(_, _, _, _, _)
resolve_from(a, cat, from, i, line) ==
    IF i > Len(from) THEN a
    ELSE resolve_from(resolve_table(a, cat, from[i], line), cat, from, i + 1, line)

\* the frame, from frame k outward, that binds the name: 0 when none does
RECURSIVE frame_of_binding(_, _, _)
frame_of_binding(scopes, k, name) ==
    IF k = 0 THEN 0
    ELSE IF \E i \in 1..Len(scopes[k]) : scopes[k][i].name = name THEN k
    ELSE frame_of_binding(scopes, k - 1, name)

\* a qualified lookup that stops at the current frame
resolve_qualified_current_only(a, ref, line) ==
    LET k == IF \E i \in 1..Len(a.scopes[Len(a.scopes)]) :
                    a.scopes[Len(a.scopes)][i].name = ref.qualifier
             THEN Len(a.scopes) ELSE 0
    IN  IF k = 0
        THEN emit(a, Diagnostic("TableNotFound", ref.qualifier, line))
        ELSE LET i == CHOOSE i \in 1..Len(a.scopes[k]) :
                        /\ a.scopes[k][i].name = ref.qualifier
                        /\ \A j \in 1..(i - 1) : a.scopes[k][j].name # ref.qualifier
             IN  IF has_column(a.scopes[k][i], ref.column) THEN a
                 ELSE emit(a, Diagnostic("ColumnNotFound", ref.column, line))

\* a.c: the binding a of the current frame, else of the outer frames
resolve_qualified(a, ref, line) ==
    LET k == frame_of_binding(a.scopes, Len(a.scopes), ref.qualifier)
    IN  IF k = 0
        THEN emit(a, Diagnostic("TableNotFound", ref.qualifier, line))
        ELSE LET i == CHOOSE i \in 1..Len(a.scopes[k]) :
                        /\ a.scopes[k][i].name = ref.qualifier
                        /\ \A j \in 1..(i - 1) : a.scopes[k][j].name # ref.qualifier
             IN  IF has_column(a.scopes[k][i], ref.column) THEN a
                 ELSE emit(a, Diagnostic("ColumnNotFound", ref.column, line))

count_matches(frame, c) ==
    Cardinality({ i \in 1..Len(frame) : has_column(frame[i], c) })

\* the number of matches in the first frame, from frame k outward, that has
\* any: 0 when none has
RECURSIVE nearest_matches(_, _, _)
nearest_matches(scopes, k, c) ==
    IF k = 0 THEN 0
    ELSE IF count_matches(scopes[k], c) > 0 THEN count_matches(scopes[k], c)
    ELSE nearest_matches(scopes, k - 1, c)

\* an unqualified lookup that counts the matches of every frame together
resolve_unqualified_all_frames(a, ref, line) ==
    LET all == UNION { { <<k, i>> : i \in 1..Len(a.scopes[k]) } : k \in 1..Len(a.scopes) }
        n == Cardinality({ p \in all : has_column(a.scopes[p[1]][p[2]], ref.column) })
    IN  IF n = 0 THEN emit(a, Diagnostic("ColumnNotFound", ref.column, line))
        ELSE IF n > 1 THEN emit(a, Diagnostic("AmbiguousColumn", ref.column, line))
        ELSE a

\* c: the matches of the current frame, else of the outer frames
resolve_unqualified(a, ref, line) ==
    LET n == nearest_matches(a.scopes, Len(a.scopes), ref.column)
    IN  IF n = 0 THEN emit(a, Diagnostic("ColumnNotFound", ref.column, line))
        ELSE IF n > 1 THEN emit(a, Diagnostic("AmbiguousColumn", ref.column, line))
        ELSE a

resolve_column(a, ref, line) ==
    IF ref.qualifier = NoQualifier
    THEN resolve_unqualified(a, ref, line)
    ELSE resolve_qualified(a, ref, line)

\* leaving a subquery without popping its frame
pop_scope_merging(a) ==
    IF Len(a.scopes) > 1
    THEN [a EXCEPT !.scopes =
            SubSeq(@, 1, Len(@) - 2) \o <<@[Len(@) - 1] \o @[Len(@)]>>]
    ELSE [a EXCEPT !.scopes = <<>>]

push_scope(a) == [a EXCEPT !.scopes = Append(@, <<>>)]
pop_scope(a) == [a EXCEPT !.scopes = SubSeq(@, 1, Len(@) - 1)]

\* block k of the chain: a new frame, the FROM list, the subquery of the
\* WHERE, the column reference after it, and the frame is gone
RECURSIVE resolve_query(_, _, _, _)
resolve_query(a, cat, blocks, k) ==
    LET bound == resolve_from(push_scope(a), cat, blocks[k].from, 1, k)
        inner == IF k < Len(blocks)
                 THEN resolve_query(bound, cat, blocks, k + 1)
                 ELSE bound
    IN  pop_scope(resolve_column(inner, blocks[k].ref, k))

\* diagnostics.retain(|d| !directives.is_suppressed(code, line))
retain_unsuppressed(diags, map) ==
    SelectSeq(diags, LAMBDA d : ~is_suppressed_in(map, d.code, d.line))

\* the per-analysis state at the start of a run that keeps the CTEs of the
\* run before
begin_analysis_keeping_ctes(a, with) ==
    [ctes |-> with @@ a.ctes, scopes |-> <<>>, diagnostics |-> <<>>]

\* the per-analysis state at the start of a run: the CTEs of this statement's
\* WITH clause, no frame, no diagnostic
begin_analysis(a, with) ==
    [ctes |-> with, scopes |-> <<>>, diagnostics |-> <<>>]

InitAnalyzer ==
    /\ catalog \in Catalogs
    /\ analyzer = Analyzer_new
    /\ entered = Analyzer_new
    /\ query = NoQuery
    /\ resolved = <<>>
    /\ diagnostics = <<>>

AnalyzerUnused ==
    /\ catalog = [tables |-> <<>>, views |-> <<>>]
    /\ analyzer = Analyzer_new
    /\ entered = Analyzer_new
    /\ query = NoQuery
    /\ resolved = <<>>
    /\ diagnostics = <<>>

\* Analyzer::analyze(sql): the directives of the text, the resolution of the
\* query, the filter; what it returns is `diagnostics`
analyze ==
    /\ query = NoQuery
    /\ \E stmt \in Statements :
        LET directives == directives_of[stmt.sql]
            ran == resolve_query(begin_analysis(analyzer, stmt.with), catalog,
                                 stmt.blocks, 1)
        IN  /\ sql' = stmt.sql
            /\ parsed' = TRUE
            /\ disabled_lines' = directives
            /\ query' = [with |-> stmt.with, blocks |-> stmt.blocks]
            /\ entered' = analyzer
            /\ resolved' = ran.diagnostics
            /\ diagnostics' = retain_unsuppressed(ran.diagnostics, directives)
            /\ analyzer' = [ran EXCEPT !.diagnostics = <<>>]
    /\ UNCHANGED <<catalog, serverVars, functionVars>>

\* the caller is done with the returned diagnostics; the analyzer stays
drop_diagnostics ==
    /\ query # NoQuery
    /\ sql' = <<>>
    /\ parsed' = FALSE
    /\ disabled_lines' = <<>>
    /\ query' = NoQuery
    /\ entered' = analyzer
    /\ resolved' = <<>>
    /\ diagnostics' = <<>>
    /\ UNCHANGED <<catalog, analyzer, serverVars, functionVars>>

(***************************************************************************)
(* Functions called on their own: the adapter of the front-end             *)
(* (crates/sqlsift-lsp/src/diagnostics.rs) and SqlDialect::default_schema   *)
(* (crates/sqlsift-core/src/dialect/mod.rs).  `call` holds the function and *)
(* its arguments, `returned` what the call gave back.                      *)
(***************************************************************************)
\* no function has been called on its own
NoCall == [fn |-> "none"]

FunctionsUnused ==
    /\ call = NoCall
    /\ returned = NoCall

\* the caller is done with what the call returned
drop_returned ==
    /\ call # NoCall
    /\ call' = NoCall
    /\ returned' = NoCall
    /\ UNCHANGED <<dirVars, serverVars, analyzerVars>>

\* An unsigned integer is held as its 16-bit limbs, the low limb first: a
\* usize of a 64-bit target has four limbs, a u32 has two.
LIMB == 2 ^ 16
USIZE_LIMBS == 4
U32_LIMBS == 2

is_zero(x) == \A i \in 1..Len(x) : x[i] = 0

\* x - 1 within the width of x (x > 0 wherever the code subtracts)
wrapping_sub_1(x) ==
    [i \in 1..Len(x) |->
        IF \A j \in 1..(i - 1) : x[j] = 0
        THEN (IF x[i] = 0 THEN LIMB - 1 ELSE x[i] - 1)
        ELSE x[i]]

\* usize::saturating_sub(1)
saturating_sub_1(x) == IF is_zero(x) THEN x ELSE wrapping_sub_1(x)

\* `x as u32`: the low 32 bits of a usize
as_u32(x) == SubSeq(x, 1, U32_LIMBS)

\* a + b on u32: the wrapped sum, and whether the sum left the width
add_u32(a, b) ==
    LET low == a[1] + b[1]
        high == a[2] + b[2] + (low \div LIMB)
    IN  [sum |-> <<low % LIMB, high % LIMB>>, overflow |-> high >= LIMB]

\* the values a field of a Span takes in the inputs: 0, 1, 2, 5, 2^16,
\* 2^32 - 2, 2^32 - 1, 2^32, 2^32 + 1, 2^64 - 1
SpanValues ==
    {<<0, 0, 0, 0>>, <<1, 0, 0, 0>>, <<2, 0, 0, 0>>, <<5, 0, 0, 0>>,
     <<0, 1, 0, 0>>, <<LIMB - 2, LIMB - 1, 0, 0>>, <<LIMB - 1, LIMB - 1, 0, 0>>,
     <<0, 0, 1, 0>>, <<1, 0, 1, 0>>,
     <<LIMB - 1, LIMB - 1, LIMB - 1, LIMB - 1>>}

None == [none |-> TRUE]
Span(line, column, length) == [line |-> line, column |-> column, length |-> length]
Spans == {Span(l, c, n) : l \in SpanValues, c \in SpanValues, n \in SpanValues}

Position(line, character) == [line |-> line, character |-> character]
\* Range::default(): from (0, 0) to (0, 0)
Range_default ==
    [start |-> Position(<<0, 0>>, <<0, 0>>), end |-> Position(<<0, 0>>, <<0, 0>>)]
\* the thread panicked: "attempt to add with overflow"
Panicked == [panicked |-> TRUE]

\* span_to_range without the look at s.line: the subtraction of line 42 is
\* done on a line of 0 too
span_to_range_unchecked_line(span, overflow_checks) ==
    IF span = None
    THEN Range_default
    ELSE LET line == as_u32(wrapping_sub_1(span.line))
             col == as_u32(saturating_sub_1(span.column))
             end == add_u32(col, as_u32(span.length))
         IN  IF end.overflow /\ overflow_checks
             THEN Panicked
             ELSE [start |-> Position(line, col), end |-> Position(line, end.sum)]

\* span_to_range(span).  `col + s.length as u32` is a u32 addition: with
\* overflow checks (a debug build) an overflow panics, without them (a
\* release build) the sum wraps.
span_to_range(span, overflow_checks) ==
    IF span = None \/ is_zero(span.line)
    THEN Range_default
    ELSE LET line == as_u32(wrapping_sub_1(span.line))
             col == as_u32(saturating_sub_1(span.column))
             end == add_u32(col, as_u32(span.length))
         IN  IF end.overflow /\ overflow_checks
             THEN Panicked
             ELSE [start |-> Position(line, col), end |-> Position(line, end.sum)]

call_span_to_range ==
    /\ call = NoCall
    /\ \E span \in Spans \cup {None}, overflow_checks \in BOOLEAN :
        /\ call' = [fn |-> "span_to_range", span |-> span,
                    overflow_checks |-> overflow_checks]
        /\ returned' = span_to_range(span, overflow_checks)
    /\ UNCHANGED <<dirVars, serverVars, analyzerVars>>

\* the diagnostics handed to the adapter: the three of
\* test_disabled_rules_filtering, which have no span, and the first of them
\* with the span (1, 1, 5)
MaxDiagnostics == 3
CoreMessages ==
    ("TableNotFound" :> "Table 'a'") @@ ("ColumnNotFound" :> "Column 'b'")
        @@ ("TypeMismatch" :> "Type mismatch")
CoreDiagnostic(kind, span) ==
    [kind |-> kind, message |-> CoreMessages[kind], help |-> None, span |-> span]
CoreDiagnostics ==
    {CoreDiagnostic(k, None) : k \in DOMAIN CoreMessages}
        \cup {CoreDiagnostic("TableNotFound",
                              Span(<<1, 0, 0, 0>>, <<1, 0, 0, 0>>, <<5, 0, 0, 0>>))}
DiagnosticLists == UNION {[1..n -> CoreDiagnostics] : n \in 0..MaxDiagnostics}
\* the entries of ServerState.disabled_rules: codes of the kinds, and a code
\* no kind has
DisabledRules == SUBSET {E0001, E0003, E9999}

format_message(diag) ==
    IF diag.help = None THEN diag.message ELSE <<diag.message, "\n\nHelp: ", diag.help>>

to_lsp_diagnostic(diag, overflow_checks) ==
    [range |-> span_to_range(diag.span, overflow_checks),
     severity |-> "ERROR",
     code |-> code_of(diag.kind),
     source |-> "sqlsift",
     message |-> format_message(diag)]

\* the filter of to_lsp_diagnostics left out
to_lsp_diagnostics_unfiltered(diags, disabled_rules, overflow_checks) ==
    [diagnostics |->
        [i \in 1..Len(diags) |-> to_lsp_diagnostic(diags[i], overflow_checks)]]

\* to_lsp_diagnostics(diagnostics, disabled_rules): iter, filter, map, collect
to_lsp_diagnostics(diags, disabled_rules, overflow_checks) ==
    LET keep(d) == code_of(d.kind) \notin disabled_rules
        kept == SelectSeq(diags, keep)
        mapped == [i \in 1..Len(kept) |-> to_lsp_diagnostic(kept[i], overflow_checks)]
    IN  IF \E i \in 1..Len(mapped) : mapped[i].range = Panicked
        THEN Panicked
        ELSE [diagnostics |-> mapped]

call_to_lsp_diagnostics ==
    /\ call = NoCall
    /\ \E diags \in DiagnosticLists, disabled_rules \in DisabledRules,
          overflow_checks \in BOOLEAN :
        /\ call' = [fn |-> "to_lsp_diagnostics", diagnostics |-> diags,
                    disabled_rules |-> disabled_rules,
                    overflow_checks |-> overflow_checks]
        /\ returned' = to_lsp_diagnostics(diags, disabled_rules, overflow_checks)
    /\ UNCHANGED <<dirVars, serverVars, analyzerVars>>

\* enum SqlDialect
SqlDialects == {"PostgreSQL", "MySQL", "SQLite"}

\* every dialect has the schema of PostgreSQL
default_schema_public(dialect) == "public"

\* SqlDialect::default_schema(&self)
default_schema(dialect) ==
    CASE dialect = "PostgreSQL" -> "public"
      [] dialect \in {"MySQL", "SQLite"} -> ""

call_default_schema ==
    /\ call = NoCall
    /\ \E dialect \in SqlDialects :
        /\ call' = [fn |-> "default_schema", dialect |-> dialect]
        /\ returned' = [schema |-> default_schema(dialect)]
    /\ UNCHANGED <<dirVars, serverVars, analyzerVars>>

\* ---- impl FromStr for SqlDialect, impl Display for SqlDialect ----
char_to_lowercase(c) ==
    IF \E k \in 1..Len(UpperLetters) : UpperLetters[k] = c
    THEN LowerLetters[CHOOSE k \in 1..Len(UpperLetters) : UpperLetters[k] = c]
    ELSE c

\* str::to_lowercase
to_lowercase(s) == [k \in 1..Len(s) |-> char_to_lowercase(s[k])]

Ok(value) == [ok |-> value]
\* Err(format!("Unknown dialect: '{}'. Supported dialects: ...", s))
Err(s) == [err |-> s]

\* from_str without the to_lowercase of line 38
from_str_case_sensitive(s) ==
    CASE s \in {<<"p","o","s","t","g","r","e","s","q","l">>, <<"p","o","s","t","g","r","e","s">>, <<"p","g">>} -> Ok("PostgreSQL")
      [] s \in {<<"m","y","s","q","l">>, <<"m","y","s","q","l","8">>} -> Ok("MySQL")
      [] s \in {<<"s","q","l","i","t","e">>, <<"s","q","l","i","t","e","3">>} -> Ok("SQLite")
      [] OTHER -> Err(s)

from_str(s) ==
    LET lowered == to_lowercase(s)
    IN  CASE lowered \in {<<"p","o","s","t","g","r","e","s","q","l">>, <<"p","o","s","t","g","r","e","s">>, <<"p","g">>} -> Ok("PostgreSQL")
          [] lowered \in {<<"m","y","s","q","l">>, <<"m","y","s","q","l","8">>} -> Ok("MySQL")
          [] lowered \in {<<"s","q","l","i","t","e">>, <<"s","q","l","i","t","e","3">>} -> Ok("SQLite")
          [] OTHER -> Err(s)

\* Display::fmt, and with it to_string()
fmt(dialect) ==
    CASE dialect = "PostgreSQL" -> <<"p","o","s","t","g","r","e","s","q","l">>
      [] dialect = "MySQL" -> <<"m","y","s","q","l">>
      [] dialect = "SQLite" -> <<"s","q","l","i","t","e">>

\* the strings handed to from_str: names in several letter cases, and
\* strings that are no name (the empty string, a name cut short or
\* lengthened, a name with a space before, inside or after it)
DialectStrings ==
    {<<"p","o","s","t","g","r","e","s","q","l">>,
     <<"P","o","s","t","g","r","e","S","Q","L">>,
     <<"P","O","S","T","G","R","E","S">>,
     <<"P","g">>,
     <<"p","G">>,
     <<"m","y","s","q","l">>,
     <<"M","y","S","Q","L">>,
     <<"M","Y","S","Q","L","8">>,
     <<"s","q","l","i","t","e">>,
     <<"S","Q","L","i","t","e">>,
     <<"S","q","l","i","t","e","3">>,
     <<>>,
     <<"p","o","s","t","g","r","e">>,
     <<"p","s","q","l">>,
     <<"m","y","s","q","l","9">>,
     <<" ","p","g">>,
     <<"s","q","l","i","t","e","3"," ">>,
     <<"m","s","s","q","l">>,
     <<"m","y"," ","s","q","l">>,
     <<"p","o","s","t","g","r","e","s","q","l","8">>}

call_from_str ==
    /\ call = NoCall
    /\ \E s \in DialectStrings :
        /\ call' = [fn |-> "from_str", s |-> s]
        /\ returned' = from_str(s)
    /\ UNCHANGED <<dirVars, serverVars, analyzerVars>>

\* dialect.to_string().parse::<SqlDialect>()
call_to_string_parse ==
    /\ call = NoCall
    /\ \E dialect \in SqlDialects :
        /\ call' = [fn |-> "to_string().parse()", dialect |-> dialect]
        /\ returned' = from_str(fmt(dialect))
    /\ UNCHANGED <<dirVars, serverVars, analyzerVars>>


(***************************************************************************)
(* merge_into_map called again and again on one map, as parse calls it     *)
(* while it scans a text                                                   *)
(***************************************************************************)
MaxMerges == 3

\* what a directive brings: every rule, or the codes it lists
MergedCodes ==
    {AllRules, SomeCodes({E0001}), SomeCodes({E0002}), SomeCodes({E0001, E0003})}
MergedLines == {1, 2}
Merges == UNION {[1..n -> [line : MergedLines, codes : MergedCodes]] : n \in 0..MaxMerges}

\* the map after the first k calls
RECURSIVE merge_all(_, _)
merge_all(merges, k) ==
    IF k = 0 THEN <<>>
    ELSE merge_into_map(merge_all(merges, k - 1), merges[k].line, merges[k].codes)

call_merge_into_map ==
    /\ call = NoCall
    /\ \E merges \in Merges :
        /\ call' = [fn |-> "merge_into_map", merges |-> merges]
        /\ returned' = [maps |-> [k \in 1..(Len(merges) + 1) |-> merge_all(merges, k - 1)]]
    /\ UNCHANGED <<dirVars, serverVars, analyzerVars>>

(***************************************************************************)
(* SchemaBuilder: the statements of a schema text applied one after the    *)
(* other to the tables built so far.  A table is held as the sequence of   *)
(* its column names, in the order of the ordered map that keys the columns *)
(* by name.                                                                *)
(***************************************************************************)
MaxStatements == 3

CreateTable(t, cols) == [op |-> "CREATE TABLE", table |-> t, columns |-> cols]
AddColumn(t, c) == [op |-> "ADD COLUMN", table |-> t, column |-> c]
DropColumn(t, c) == [op |-> "DROP COLUMN", table |-> t, column |-> c]
RenameColumn(t, a, b) == [op |-> "RENAME COLUMN", table |-> t, column |-> a, to |-> b]

\* CREATE TABLE users (..) as the ALTER TABLE tests write it, and tables whose
\* columns bear the names the ALTER statements of the inputs use
CreateStatements ==
    {CreateTable("users", cols) :
        cols \in {<<"id", "name">>, <<"c", "id">>}}
AlterNames == {"id", "c", "d"}
AlterStatements ==
    {AddColumn("users", c) : c \in {"c", "d"}}
        \cup {DropColumn("users", c) : c \in AlterNames}
        \cup {RenameColumn("users", "c", "d"), RenameColumn("users", "id", "c"),
              RenameColumn("users", "id", "d")}
        \cup {AddColumn("nonexistent", "c"), RenameColumn("nonexistent", "c", "d")}
AlterBatches == UNION {[1..n -> AlterStatements] : n \in 0..MaxStatements}
\* a schema text that parses: one CREATE TABLE, then ALTER TABLE statements
SchemaTexts == {<<create>> \o alters : create \in CreateStatements, alters \in AlterBatches}

SchemaBuilder_new == [tables |-> <<>>, diagnostics |-> <<>>]

Warning(kind, name) == [kind |-> kind, severity |-> "Warning", name |-> name]
warn(b, kind, name) == [b EXCEPT !.diagnostics = Append(@, Warning(kind, name))]

has_table(b, t) == t \in DOMAIN b.tables
contains_column(cols, c) == \E i \in 1..Len(cols) : cols[i] = c

\* the first entry of each name stays: a name keys one column of the map
RECURSIVE first_of_each(_)
first_of_each(cols) ==
    IF cols = <<>> THEN <<>>
    ELSE LET front == first_of_each(SubSeq(cols, 1, Len(cols) - 1))
             last == cols[Len(cols)]
         IN  IF contains_column(front, last) THEN front ELSE Append(front, last)

create_table(b, t, cols) ==
    IF has_table(b, t)
    THEN warn(b, "DuplicateTable", t)
    ELSE [b EXCEPT !.tables = (t :> first_of_each(cols)) @@ @]

add_column(b, t, c) ==
    IF ~has_table(b, t)
    THEN warn(b, "TableNotFound", t)
    ELSE [b EXCEPT !.tables[t] = first_of_each(Append(@, c))]

drop_column(b, t, c) ==
    IF ~has_table(b, t)
    THEN warn(b, "TableNotFound", t)
    ELSE IF ~contains_column(b.tables[t], c)
    THEN warn(b, "ColumnNotFound", c)
    ELSE [b EXCEPT !.tables[t] = SelectSeq(@, LAMBDA x : x # c)]

\* a RENAME COLUMN that finds its column and leaves it its name
rename_column_keeping_name(b, t, a, c) ==
    IF ~has_table(b, t)
    THEN warn(b, "TableNotFound", t)
    ELSE IF ~contains_column(b.tables[t], a)
    THEN warn(b, "ColumnNotFound", a)
    ELSE b

rename_column(b, t, a, c) ==
    IF ~has_table(b, t)
    THEN warn(b, "TableNotFound", t)
    ELSE IF ~contains_column(b.tables[t], a)
    THEN warn(b, "ColumnNotFound", a)
    ELSE [b EXCEPT !.tables[t] =
            first_of_each([i \in 1..Len(@) |-> IF @[i] = a THEN c ELSE @[i]])]

apply_statement(b, stmt) ==
    CASE stmt.op = "CREATE TABLE" -> create_table(b, stmt.table, stmt.columns)
      [] stmt.op = "ADD COLUMN" -> add_column(b, stmt.table, stmt.column)
      [] stmt.op = "DROP COLUMN" -> drop_column(b, stmt.table, stmt.column)
      [] stmt.op = "RENAME COLUMN" ->
            rename_column(b, stmt.table, stmt.column, stmt.to)

\* a batch that ends at the first statement that adds a diagnostic
RECURSIVE apply_statements_until_warning(_, _, _)
apply_statements_until_warning(b, stmts, n) ==
    IF n = 0 THEN b
    ELSE LET done == apply_statements_until_warning(b, stmts, n - 1)
         IN  IF done.diagnostics # b.diagnostics
             THEN done
             ELSE apply_statement(done, stmts[n])

\* the first n statements of the batch, in order
RECURSIVE apply_statements(_, _, _)
apply_statements(b, stmts, n) ==
    IF n = 0 THEN b
    ELSE apply_statement(apply_statements(b, stmts, n - 1), stmts[n])

\* SchemaBuilder::parse(sql), then SchemaBuilder::build(): what parse
\* returned, the catalog and the schema diagnostics
build_schema(stmts) ==
    LET b == apply_statements(SchemaBuilder_new, stmts, Len(stmts))
    IN  [parse |-> "Ok", catalog |-> b.tables, diagnostics |-> b.diagnostics]

call_build_schema ==
    /\ call = NoCall
    /\ \E stmts \in SchemaTexts :
        /\ call' = [fn |-> "SchemaBuilder", statements |-> stmts]
        /\ returned' = build_schema(stmts)
    /\ UNCHANGED <<dirVars, serverVars, analyzerVars>>

(***************************************************************************)
(* ServerState::rebuild_catalog over the schema files as they are on disk  *)
(***************************************************************************)
MaxFiles == 3

\* what std::fs::read_to_string gives for a schema file: an error, a text the
\* parser rejects, or a text of statements
ReadError == [read |-> "Err"]
Unparsable == [read |-> "Ok", parses |-> FALSE, statements |-> <<>>]
SchemaFile(stmts) == [read |-> "Ok", parses |-> TRUE, statements |-> stmts]
SchemaFiles ==
    {ReadError, Unparsable,
     SchemaFile(<<CreateTable("users", <<"id", "name">>)>>),
     SchemaFile(<<AddColumn("users", "c")>>),
     SchemaFile(<<AddColumn("nonexistent", "c")>>)}
Disks == UNION {[1..n -> SchemaFiles] : n \in 0..MaxFiles}
\* the catalog of an earlier build
StaleCatalog == "users" :> <<"stale">>
PriorCatalogs == {SchemaBuilder_new.tables, StaleCatalog}

\* SchemaBuilder::parse(&content): a text the parser rejects gives
\* Err(diags) with the one ParseError and adds nothing to the builder
SchemaBuilder_parse(b, file) ==
    IF file.parses
    THEN [builder |-> apply_statements(b, file.statements, Len(file.statements)),
          diags |-> <<>>]
    ELSE [builder |-> b, diags |-> <<[kind |-> "ParseError"]>>]

\* a loop that returns at the first file that fails
RECURSIVE read_schema_files_until_error(_, _)
read_schema_files_until_error(disk_files, n) ==
    IF n = 0
    THEN [builder |-> SchemaBuilder_new, errors |-> <<>>]
    ELSE LET sofar == read_schema_files_until_error(disk_files, n - 1)
             outcome == SchemaBuilder_parse(sofar.builder, disk_files[n])
         IN  IF sofar.errors # <<>>
             THEN sofar
             ELSE IF disk_files[n].read = "Err"
             THEN [sofar EXCEPT !.errors = Append(@, [text |-> "Failed to read", file |-> n])]
             ELSE [builder |-> outcome.builder,
                   errors |-> sofar.errors
                        \o [i \in 1..Len(outcome.diags) |->
                                [text |-> outcome.diags[i].kind, file |-> n]]]

\* for schema_file in &self.schema_files { match read_to_string .. }: the
\* builder and the errors after the first n files
RECURSIVE read_schema_files(_, _)
read_schema_files(disk_files, n) ==
    IF n = 0
    THEN [builder |-> SchemaBuilder_new, errors |-> <<>>]
    ELSE LET sofar == read_schema_files(disk_files, n - 1)
             outcome == SchemaBuilder_parse(sofar.builder, disk_files[n])
         IN  IF disk_files[n].read = "Err"
             THEN [sofar EXCEPT !.errors = Append(@, [text |-> "Failed to read", file |-> n])]
             ELSE [builder |-> outcome.builder,
                   errors |-> sofar.errors
                        \o [i \in 1..Len(outcome.diags) |->
                                [text |-> outcome.diags[i].kind, file |-> n]]]

\* ServerState::rebuild_catalog(&mut self) -> Vec<String>; disk[i] is the file
\* at self.schema_files[i]
ServerState_rebuild_catalog(st, disk_files) ==
    LET files_read == read_schema_files(disk_files, Len(st.schema_files))
        schema_diags == files_read.builder.diagnostics
    IN  [state |-> [st EXCEPT !.catalog = files_read.builder.tables],
         errors |-> files_read.errors
            \o [i \in 1..Len(schema_diags) |->
                    [text |-> "Schema warning", file |-> 0]]]

call_rebuild_catalog ==
    /\ call = NoCall
    /\ \E disk_files \in Disks, prior \in PriorCatalogs :
        LET st == [ServerState_new EXCEPT
                        !.catalog = prior,
                        !.schema_files = [i \in 1..Len(disk_files) |-> i]]
        IN  /\ call' = [fn |-> "rebuild_catalog", state |-> st, disk |-> disk_files]
            /\ returned' = ServerState_rebuild_catalog(st, disk_files)
    /\ UNCHANGED <<dirVars, serverVars, analyzerVars>>

(***************************************************************************)
(* Analyzer::analyze on an UPDATE statement: the SET entries and the       *)
(* comparison of the WHERE clause are resolved against the table and       *)
(* type-checked with the compatibility relation                            *)
(***************************************************************************)
MaxAssignments == 2

\* orders of setup_catalog: the declared type of each column
OrdersColumns == ("id" :> "Integer") @@ ("user_id" :> "Integer") @@ ("total" :> "Decimal")

Literal(form) == [form |-> form, name |-> form]
Function(name) == [form |-> "function", name |-> name]
Column(name) == [form |-> "column", name |-> name]
\* 42, 'text', true, NULL, a function the registry does not have, a column
\* orders does not have
Expressions ==
    {Literal("integer"), Literal("string"), Literal("boolean"), Literal("NULL"),
     Function("my_func"), Column("bad")}
SetEntries == [column : {"user_id", "total", "bad"}, value : Expressions]
SetClauses == UNION {[1..n -> SetEntries] : n \in 1..MaxAssignments}
NoWhere == [left |-> Literal("boolean"), right |-> Literal("boolean")]
WhereClauses ==
    {NoWhere,
     [left |-> Column("user_id"), right |-> Literal("string")],
     [left |-> Literal("NULL"), right |-> Column("user_id")],
     [left |-> Function("my_func"), right |-> Column("total")],
     [left |-> Column("bad"), right |-> Literal("integer")]}
\* UPDATE orders SET .. WHERE .., and a text the parser rejects
UpdateStatements ==
    [parses : {TRUE}, set : SetClauses, where : WhereClauses]
        \cup {[parses |-> FALSE, set |-> <<>>, where |-> NoWhere]}

family(type) ==
    CASE type \in {"SmallInt", "Integer", "BigInt", "Decimal", "Real", "Double"} -> "numeric"
      [] type \in {"Char", "Varchar", "Text"} -> "text"
      [] type \in {"Date", "Time", "Timestamp"} -> "temporal"
      [] OTHER -> type

\* Null and Unknown pass as the value only
is_compatible_value_side(expected, found) ==
    \/ found \in {"Null", "Unknown"}
    \/ family(expected) = family(found)

\* the compatibility relation of assignments and binary comparisons
is_compatible(expected, found) ==
    \/ expected \in {"Null", "Unknown"}
    \/ found \in {"Null", "Unknown"}
    \/ family(expected) = family(found)

\* the type of an expression; a column the table does not have, and a function
\* the registry does not have, are Unknown
type_of(expr) ==
    CASE expr.form = "integer" -> "Integer"
      [] expr.form = "string" -> "Text"
      [] expr.form = "boolean" -> "Boolean"
      [] expr.form = "NULL" -> "Null"
      [] expr.form = "function" -> "Unknown"
      [] expr.form = "column" ->
            IF expr.name \in DOMAIN OrdersColumns THEN OrdersColumns[expr.name]
            ELSE "Unknown"

TypeDiagnostic(kind, name, at) == [kind |-> kind, name |-> name, at |-> at]

\* the diagnostics of resolving one expression
resolve_expression(expr, at) ==
    IF expr.form = "column" /\ expr.name \notin DOMAIN OrdersColumns
    THEN <<TypeDiagnostic("ColumnNotFound", expr.name, at)>>
    ELSE <<>>

\* SET column = value, the entry at place `at`
check_assignment(entry, at) ==
    LET target == Column(entry.column)
    IN  resolve_expression(target, at)
            \o resolve_expression(entry.value, at)
            \o (IF is_compatible(type_of(target), type_of(entry.value))
                THEN <<>>
                ELSE <<TypeDiagnostic("TypeMismatch", entry.column, at)>>)

\* left = right
check_comparison(where, at) ==
    resolve_expression(where.left, at)
        \o resolve_expression(where.right, at)
        \o (IF is_compatible(type_of(where.left), type_of(where.right))
            THEN <<>>
            ELSE <<TypeDiagnostic("TypeMismatch", where.left.name, at)>>)

\* the entries are left once one of them has given a diagnostic
RECURSIVE check_assignments_until_failure(_, _)
check_assignments_until_failure(set, n) ==
    IF n = 0 THEN <<>>
    ELSE LET sofar == check_assignments_until_failure(set, n - 1)
         IN  IF sofar # <<>> THEN sofar ELSE check_assignment(set[n], n)

\* the first n SET entries, in order
RECURSIVE check_assignments(_, _)
check_assignments(set, n) ==
    IF n = 0 THEN <<>>
    ELSE check_assignments(set, n - 1) \o check_assignment(set[n], n)

\* Analyzer::analyze(sql) for an UPDATE of orders
analyze_update(stmt) ==
    IF ~stmt.parses
    THEN <<TypeDiagnostic("ParseError", "", 0)>>
    ELSE check_assignments(stmt.set, Len(stmt.set))
            \o check_comparison(stmt.where, Len(stmt.set) + 1)

call_analyze_update ==
    /\ call = NoCall
    /\ \E stmt \in UpdateStatements :
        /\ call' = [fn |-> "analyze_update", statement |-> stmt]
        /\ returned' = [diagnostics |-> analyze_update(stmt)]
    /\ UNCHANGED <<dirVars, serverVars, analyzerVars>>

(***************************************************************************)
(* Specifications                                                          *)
(***************************************************************************)
InitDirectives ==
    /\ sql \in InputTexts
    /\ parsed = FALSE
    /\ disabled_lines = <<>>
    /\ InitServer
    /\ AnalyzerUnused
    /\ FunctionsUnused

\* InlineDirectives::parse(sql): the loop run to the end, Self { disabled_lines }
parse ==
    /\ ~parsed
    /\ parsed' = TRUE
    /\ disabled_lines' = parse_loop(sql, Len(sql)).disabled_lines
    /\ UNCHANGED <<sql, serverVars, analyzerVars, functionVars>>

NextDirectives == parse

SpecDirectives == InitDirectives /\ [][NextDirectives]_vars

\* Backend::new: the state is ServerState::new(), no handler has started
Init ==
    /\ InitServer
    /\ sql = <<>>
    /\ parsed = FALSE
    /\ disabled_lines = <<>>
    /\ AnalyzerUnused
    /\ FunctionsUnused

\* one step of one handler, or the next message of the client.  shutdown
\* does nothing, and hover reads the state under a read guard it drops before
\* it returns: neither changes a variable, neither is an action.
Next ==
    \/ \E has_root \in BOOLEAN : initialize(has_root)
    \/ \E h \in Handlers : initialize_write(h)
    \/ \E h \in Handlers, found \in BOOLEAN : load_config(h, found)
    \/ \E h \in Handlers : initialize_respond(h)
    \/ initialized
    \/ \E h \in Handlers : rebuild_write(h)
    \/ \E h \in Handlers : rebuild_catalog(h)
    \/ \E h \in Handlers : initialized_count(h)
    \/ \E h \in Handlers : log_message_info(h)
    \/ \E h \in Handlers : log_message_warning(h)
    \/ \E uri \in Uris, text \in Texts : did_open(uri, text)
    \/ \E uri \in Uris, change \in Texts \cup {NoChange} : did_change(uri, change)
    \/ \E h \in Handlers : insert_document(h)
    \/ \E h \in Handlers : publish_diagnostics_for_analyze(h)
    \/ \E h \in Handlers : publish_diagnostics_for_publish(h)
    \/ \E uri \in Uris, with_text, parses \in BOOLEAN : did_save(uri, with_text, parses)
    \/ \E h \in Handlers : did_save_is_schema_file(h)
    \/ \E h \in Handlers : reanalyze_all_open_documents(h)
    \/ \E uri \in Uris : did_close(uri)
    \/ \E h \in Handlers : did_close_remove(h)
    \/ \E h \in Handlers : did_close_clear(h)

Spec == Init /\ [][Next]_vars

\* Analyzer::new(&catalog), then analyze on that analyzer for as long as the
\* caller likes
InitAnalysis ==
    /\ InitAnalyzer
    /\ sql = <<>>
    /\ parsed = FALSE
    /\ disabled_lines = <<>>
    /\ InitServer
    /\ FunctionsUnused

NextAnalyzer ==
    \/ analyze
    \/ drop_diagnostics

SpecAnalyzer == InitAnalysis /\ [][NextAnalyzer]_vars

\* the functions called on their own, one call at a time, in any order
InitFunctions ==
    /\ FunctionsUnused
    /\ sql = <<>>
    /\ parsed = FALSE
    /\ disabled_lines = <<>>
    /\ InitServer
    /\ AnalyzerUnused

NextFunctions ==
    \/ call_span_to_range
    \/ call_to_lsp_diagnostics
    \/ call_default_schema
    \/ call_from_str
    \/ call_to_string_parse
    \/ call_merge_into_map
    \/ call_build_schema
    \/ call_rebuild_catalog
    \/ call_analyze_update
    \/ drop_returned

SpecFunctions == InitFunctions /\ [][NextFunctions]_vars

\* A session in progress: initialize found the configuration, initialized
\* built the catalog from the schema file, documents were opened and their
\* diagnostics published; the handlers of those messages have returned, the
\* first tasks being those of initialize and initialized.
SessionState(open) ==
    LET configured == [ServerState_new EXCEPT
                            !.workspace_root = WORKSPACE_ROOT,
                            !.dialect = ConfigFile.dialect,
                            !.disabled_rules = ConfigFile.disable,
                            !.schema_files = ConfigFile.schema]
    IN  [configured EXCEPT
            !.catalog = build_catalog(configured, [version |-> 1, parses |-> TRUE]).catalog,
            !.open_documents = [u \in open |-> "t1"]]

\* the session once the handlers of its first `finished` tasks have returned
SessionAfter(finished) ==
    /\ \E open \in (SUBSET Uris) \ {{}} :
        /\ state = SessionState(open)
        /\ client_documents = [u \in Uris |-> IF u \in open THEN "t1" ELSE NoText]
        /\ published = [u \in Uris |->
                            IF u \in open
                            THEN lsp_diagnostics_of(SessionState(open), "t1")
                            ELSE NothingPublished]
    /\ lock = [writer |-> 0, readers |-> {}]
    /\ handlers = [h \in Handlers |-> IF h <= finished THEN Done ELSE Idle]
    /\ lifecycle = "running"
    /\ disk = [version |-> 1, parses |-> TRUE]
    /\ sql = <<>>
    /\ parsed = FALSE
    /\ disabled_lines = <<>>
    /\ AnalyzerUnused
    /\ FunctionsUnused

\* initialize and initialized have run
InitSession == SessionAfter(2)

\* one step of one handler, or the next message of the client
NextSession ==
    \/ \E h \in Handlers : rebuild_write(h)
    \/ \E h \in Handlers : rebuild_catalog(h)
    \/ \E h \in Handlers : log_message_info(h)
    \/ \E h \in Handlers : log_message_warning(h)
    \/ \E uri \in Uris, text \in Texts : did_open(uri, text)
    \/ \E uri \in Uris, change \in Texts \cup {NoChange} : did_change(uri, change)
    \/ \E h \in Handlers : insert_document(h)
    \/ \E h \in Handlers : publish_diagnostics_for_analyze(h)
    \/ \E h \in Handlers : publish_diagnostics_for_publish(h)
    \/ \E uri \in Uris, with_text, parses \in BOOLEAN : did_save(uri, with_text, parses)
    \/ \E h \in Handlers : did_save_is_schema_file(h)
    \/ \E h \in Handlers : reanalyze_all_open_documents(h)
    \/ \E uri \in Uris : did_close(uri)
    \/ \E h \in Handlers : did_close_remove(h)
    \/ \E h \in Handlers : did_close_clear(h)

SpecSession == InitSession /\ [][NextSession]_vars

\* initialize, initialized and the did_open of a document have run
InitLateSession == SessionAfter(3)

SpecLateSession == InitLateSession /\ [][NextSession]_vars

\* ---- the document notifications handled one at a time ----
\* every handler started so far has returned
InTurn == \A h \in Handlers : ~Running(h)

\* The next notification arrives once the handler of the one before has
\* returned; the client may send any of them for any URI, open or not.
\* client_documents records the text the last did_open or non-empty
\* did_change of a URI carried, and NoText after a did_close.
did_open_in_turn(uri, text) ==
    /\ InTurn
    /\ client_documents' = [client_documents EXCEPT ![uri] = text]
    /\ Spawn(NewHandler("did_open", "insert", uri, text))
    /\ UNCHANGED <<coreVars, state, lock, lifecycle, disk, published>>

did_change_in_turn(uri, change) ==
    /\ InTurn
    /\ IF change = NoChange
       THEN /\ Spawn(Done)
            /\ UNCHANGED client_documents
       ELSE /\ Spawn(NewHandler("did_change", "insert", uri, change))
            /\ client_documents' = [client_documents EXCEPT ![uri] = change]
    /\ UNCHANGED <<coreVars, state, lock, lifecycle, disk, published>>

did_close_in_turn(uri) ==
    /\ InTurn
    /\ client_documents' = [client_documents EXCEPT ![uri] = NoText]
    /\ Spawn(NewHandler("did_close", "remove", uri, NoText))
    /\ UNCHANGED <<coreVars, state, lock, lifecycle, disk, published>>

\* initialize and initialized have run and their tasks are gone; no document
\* has been opened
InitInTurn ==
    /\ state = SessionState({})
    /\ client_documents = [u \in Uris |-> NoText]
    /\ published = [u \in Uris |-> NothingPublished]
    /\ lock = [writer |-> 0, readers |-> {}]
    /\ handlers = [h \in Handlers |-> Idle]
    /\ lifecycle = "running"
    /\ disk = [version |-> 1, parses |-> TRUE]
    /\ sql = <<>>
    /\ parsed = FALSE
    /\ disabled_lines = <<>>
    /\ AnalyzerUnused
    /\ FunctionsUnused

NextInTurn ==
    \/ \E uri \in Uris, text \in Texts : did_open_in_turn(uri, text)
    \/ \E uri \in Uris, change \in Texts \cup {NoChange} : did_change_in_turn(uri, change)
    \/ \E uri \in Uris : did_close_in_turn(uri)
    \/ \E h \in Handlers : insert_document(h)
    \/ \E h \in Handlers : publish_diagnostics_for_analyze(h)
    \/ \E h \in Handlers : publish_diagnostics_for_publish(h)
    \/ \E h \in Handlers : did_close_remove(h)
    \/ \E h \in Handlers : did_close_clear(h)

SpecInTurn == InitInTurn /\ [][NextInTurn]_vars

\* the steps of the handler in task h
HandlerStep(h) ==
    \/ initialize_write(h)
    \/ \E found \in BOOLEAN : load_config(h, found)
    \/ initialize_respond(h)
    \/ initialized_count(h)
    \/ rebuild_write(h)
    \/ rebuild_catalog(h)
    \/ log_message_info(h)
    \/ log_message_warning(h)
    \/ insert_document(h)
    \/ publish_diagnostics_for_analyze(h)
    \/ publish_diagnostics_for_publish(h)
    \/ did_save_is_schema_file(h)
    \/ reanalyze_all_open_documents(h)
    \/ did_close_remove(h)
    \/ did_close_clear(h)

\* The runtime polls every task that can go on, the client answers every
\* request sent to it, and the RwLock hands its guards out in the order they
\* were asked for: a handler that can take its next step takes it.  The
\* client is free to send nothing more.
SpecLateSessionFair == SpecLateSession /\ \A h \in Handlers : WF_vars(HandlerStep(h))

(***************************************************************************)
(* Reference reading of a text, used by the properties below: SQL lexing   *)
(* of quotes and comments, the directive syntax                            *)
(* `-- sqlsift:disable[ CODE[(,| )CODE]...]`, and the line a directive     *)
(* targets.                                                                *)
(***************************************************************************)
ProbeCodes == {E0001, E0002, E0003, E9999}

LexStates == {"code", "sq", "dq"}

\* Lexing of one line that starts in state st ("code": outside any literal,
\* "sq": inside a single-quoted string, "dq": inside a double-quoted
\* identifier): the 0-based offset of the `--` that opens the line's comment
\* (-1 if none) and the state at the end of the line.
RECURSIVE RefLexFrom(_, _, _)
RefLexFrom(line, i, st) ==
    IF i >= Len(line) THEN [comment |-> -1, end |-> st]
    ELSE LET c == line[i + 1]
             d == IF i + 1 < Len(line) THEN line[i + 2] ELSE ""
         IN  CASE st = "sq" /\ c = "'" /\ d = "'" -> RefLexFrom(line, i + 2, "sq")
               [] st = "sq" /\ c = "'" /\ d # "'" -> RefLexFrom(line, i + 1, "code")
               [] st = "sq" /\ c # "'" -> RefLexFrom(line, i + 1, "sq")
               [] st = "dq" /\ c = "\"" -> RefLexFrom(line, i + 1, "code")
               [] st = "dq" /\ c # "\"" -> RefLexFrom(line, i + 1, "dq")
               [] st = "code" /\ c = "'" -> RefLexFrom(line, i + 1, "sq")
               [] st = "code" /\ c = "\"" -> RefLexFrom(line, i + 1, "dq")
               [] st = "code" /\ c = "-" /\ d = "-" -> [comment |-> i, end |-> "code"]
               [] OTHER -> RefLexFrom(line, i + 1, "code")

RefLex == [l \in InputLines |-> [st \in LexStates |-> RefLexFrom(l, 0, st)]]

\* the lexer state at the start of line n of a text
RECURSIVE RefStartState(_, _)
RefStartState(text, n) ==
    IF n = 1 THEN "code"
    ELSE RefLex[text[n - 1]][RefStartState(text, n - 1)].end

RefSeparators == {",", " ", "\t"}

\* the diagnostic code a spelling of a code stands for (E0001 .. E0006 differ
\* from their other spellings in the letter E only)
Canonical(code) == [k \in 1..Len(code) |-> IF code[k] = "e" THEN "E" ELSE code[k]]

\* a comment text read by the directive syntax: whether it is a directive and
\* the codes it lists, as written
RefDirectiveOfComment(comment) ==
    LET t == trim(comment)
        rest == strip_prefix(t, KEYWORD)
        pieces == split(rest, RefSeparators)
    IN  IF ~starts_with(t, KEYWORD) THEN [dir |-> FALSE, listed |-> {}]
        ELSE IF rest = <<>> THEN [dir |-> TRUE, listed |-> {}]
        ELSE IF rest[1] \notin RefSeparators THEN [dir |-> FALSE, listed |-> {}]
        ELSE [dir |-> TRUE,
              listed |-> { pieces[k] : k \in { j \in 1..Len(pieces) : pieces[j] # <<>> } }]

\* a line read on its own (every literal it opens is closed on it)
RefLineOf(l) ==
    LET at == RefLex[l]["code"].comment
        d == RefDirectiveOfComment(SubSeq(l, at + 3, Len(l)))
    IN  [comment |-> at # -1,
         dir |-> at # -1 /\ d.dir,
         standalone |-> at # -1 /\ trim(SubSeq(l, 1, at)) = <<>>,
         listed |-> IF at # -1 /\ d.dir THEN d.listed ELSE {}]

RefLine == [l \in InputLines |-> RefLineOf(l)]

\* a line whose trimmed content is neither empty nor starts with `--`
IsSqlLine == [l \in InputLines |-> trim(l) # <<>> /\ ~starts_with(trim(l), DASHES)]

\* the first line after d whose trimmed content is neither empty nor a
\* comment; 0 if there is none
RefNextSqlLine(text, d) ==
    IF \E j \in (d + 1)..Len(text) : IsSqlLine[text[j]]
    THEN CHOOSE j \in (d + 1)..Len(text) :
            /\ IsSqlLine[text[j]]
            /\ \A i \in (d + 1)..(j - 1) : ~IsSqlLine[text[i]]
    ELSE 0

\* the line the directive on line d targets: its own line when the line also
\* holds SQL, the next SQL line when it stands alone; 0 if there is none
RefTarget(text, d) ==
    IF ~RefLine[text[d]].dir THEN 0
    ELSE IF RefLine[text[d]].standalone THEN RefNextSqlLine(text, d)
    ELSE d

\* the directive lines that target line t
RefTargeting(text, t) == { d \in 1..Len(text) : RefTarget(text, d) = t }

\* the codes of the directive on line d are all suppressed on line t
Covered(text, d, t) ==
    IF RefLine[text[d]].listed = {}
    THEN \A c \in ProbeCodes : is_suppressed(c, t)
    ELSE \A s \in RefLine[text[d]].listed : is_suppressed(Canonical(s), t)

(***************************************************************************)
(* Properties of the front-end (checked under Spec)                        *)
(***************************************************************************)
\* a handler that may still publish for uri: one that runs for uri itself,
\* or a did_save, whose reanalysis publishes for every open document
RunningFor(uri) ==
    \E h \in Handlers :
        /\ Running(h)
        /\ \/ handlers[h].uri = uri
           \/ handlers[h].kind = "did_save"

\* C1: under every interleaving of the handlers, once no handler for a URI
\* is still running, the diagnostics last published for the URI are those
\* computed from the text open_documents holds for it: a publish computed
\* from an older text is never the last one.
C1_LastPublishReflectsStoredText ==
    \A uri \in Uris :
        (/\ uri \in DOMAIN state.open_documents
         /\ ~RunningFor(uri)
         /\ published[uri].kind = "analysis")
        => published[uri].text = state.open_documents[uri]

\* the await points at which a handler does I/O: it awaits the client
\* (publish_diagnostics, log_message) or reads a file (the configuration
\* file in load_config, the schema files in rebuild_catalog)
IoPoints == {"publish", "clear", "log_info", "log_errors", "load_config", "rebuild"}

\* C2: no handler holds a read or write guard on ServerState while it does
\* I/O: while it awaits client.publish_diagnostics or client.log_message, or
\* reads the schema files or the configuration file.
C2_NoGuardAcrossIo ==
    \A h \in Handlers :
        handlers[h].pc \in IoPoints => (lock.writer # h /\ h \notin lock.readers)

(***************************************************************************)
(* Properties of the directive scanner (checked under SpecDirectives)      *)
(***************************************************************************)

\* C3: the codes of a directive written on a standalone comment line are
\* suppressed on the first later line whose trimmed content is neither empty
\* nor starts with `--`, whatever blank and comment lines lie in between.
C3_StandaloneAppliesToNextSqlLine ==
    parsed =>
        \A d \in 1..Len(sql) :
            (RefLine[sql[d]].dir /\ RefLine[sql[d]].standalone
                /\ RefNextSqlLine(sql, d) # 0)
            => Covered(sql, d, RefNextSqlLine(sql, d))

\* C4: when a line holds non-comment SQL followed by a
\* `-- sqlsift:disable CODES` comment, every listed code is suppressed on
\* that line's 1-indexed number.
C4_InlineSameLine ==
    parsed =>
        \A n \in 1..Len(sql) :
            (RefLine[sql[n]].dir /\ ~RefLine[sql[n]].standalone
                /\ RefLine[sql[n]].listed # {})
            => \A s \in RefLine[sql[n]].listed : is_suppressed(Canonical(s), n)

\* an inline directive with codes has been parsed after a plain SQL line
C4_Witness ==
    /\ parsed
    /\ sql = <<L_SQL, L_ESC>>
    /\ is_suppressed(E0001, 2)
    /\ ~is_suppressed(E0001, 1)

\* C5: directive safety: when the only directive that targets line L lists
\* code X, no other code is suppressed on L, and X is suppressed on no other
\* line M that no directive targets.
C5_DirectiveSafety ==
    parsed =>
        \A L \in 1..Len(sql) : \A X \in ProbeCodes :
            (\E d \in 1..Len(sql) :
                /\ RefTargeting(sql, L) = {d}
                /\ { Canonical(s) : s \in RefLine[sql[d]].listed } = {X})
            => /\ \A Y \in ProbeCodes \ {X} : ~is_suppressed(Y, L)
               /\ \A M \in (1..Len(sql)) \ {L} :
                    RefTargeting(sql, M) = {} => ~is_suppressed(X, M)

\* C6: several consecutive standalone directive lines accumulate: the line
\* they target has every code of each of them suppressed (every rule, if one
\* of them lists no code), and no code that no directive targeting that line
\* lists.
C6_StandaloneAccumulate ==
    parsed =>
        \A t \in 1..Len(sql) :
            LET D == { d \in RefTargeting(sql, t) : RefLine[sql[d]].standalone }
                all == \E d \in RefTargeting(sql, t) : RefLine[sql[d]].listed = {}
                union == UNION { { Canonical(s) : s \in RefLine[sql[d]].listed } :
                                    d \in RefTargeting(sql, t) }
            IN  (\E a, b \in D : b = a + 1)
                => /\ \A d \in D : Covered(sql, d, t)
                   /\ \A c \in ProbeCodes :
                        is_suppressed(c, t) => (all \/ c \in union)

\* C7: a directive with no codes (the keyword alone, or followed only by
\* separators) suppresses every code, used by a diagnostic kind or not, on
\* its target line.
C7_NoCodesDisablesAll ==
    parsed =>
        \A d \in 1..Len(sql) :
            (RefLine[sql[d]].dir /\ RefLine[sql[d]].listed = {}
                /\ RefTarget(sql, d) # 0)
            => \A c \in ProbeCodes : is_suppressed(c, RefTarget(sql, d))

\* C8: for every text, a `--` inside a single-quoted string (with '' an
\* escaped quote) or a double-quoted identifier is never taken as the start
\* of a comment, and a real comment after the closing quote is recognized:
\* the comment the scanner finds on a line is the comment of that line.
C8_CommentOutsideLiterals ==
    parsed =>
        \A n \in 1..Len(sql) :
            find_line_comment(sql[n]) = RefLex[sql[n]][RefStartState(sql, n)].comment

\* C9: for any upper/lower-case spelling of a code in a directive, the
\* diagnostic code it stands for (the upper-case form) is suppressed on the
\* line the directive targets.
C9_CodesCaseInsensitive ==
    parsed =>
        \A d \in 1..Len(sql) : \A s \in RefLine[sql[d]].listed :
            (s # Canonical(s) /\ RefTarget(sql, d) # 0)
            => is_suppressed(Canonical(s), RefTarget(sql, d))

\* C10: a comment whose trimmed text is not the keyword followed by the end
\* of the comment or by a separator is not a directive: the scanner reads no
\* directive from its line, it does not become pending, and the codes
\* suppressed on its line are those a pending directive of an earlier line
\* brings, if any.
C10_NotADirective ==
    parsed =>
        \A n \in 1..Len(sql) :
            (RefLine[sql[n]].comment /\ ~RefLine[sql[n]].dir)
            => LET before == parse_loop(sql, n - 1)
                   after == parse_loop(sql, n)
               IN  /\ parse_directive_from_line(sql[n]) = NoDirective
                   /\ after.pending_codes \in {before.pending_codes, NoDirective}
                   /\ \/ after.disabled_lines = before.disabled_lines
                      \/ /\ before.pending_codes.some
                         /\ after.disabled_lines =
                                (n :> before.pending_codes) @@ before.disabled_lines
                   /\ \A c \in ProbeCodes :
                        is_suppressed(c, n) =>
                            (before.pending_codes.some
                                /\ (before.pending_codes.all
                                        \/ c \in before.pending_codes.codes))

\* a pending directive passes a `-- sqlsift:disabled E0001` comment line and
\* lands on the SQL line after it; the comment leaves nothing else behind
C10_Witness ==
    /\ parsed
    /\ sql = <<L_SA_LOWER, L_NOT_SA, L_NOT_IN>>
    /\ is_suppressed(E0002, 3)
    /\ ~is_suppressed(E0001, 3)
    /\ ~is_suppressed(E0002, 2)

(***************************************************************************)
(* Properties of the front-end's guards                                    *)
(***************************************************************************)
OpenPairs == { <<u, state.open_documents[u]>> : u \in DOMAIN state.open_documents }

C13_WriteGuardOnlyForDocumentsOrSave ==
    lock.writer # 0 => handlers[lock.writer].kind = "did_save"

ConfigOf(st) == <<st.dialect, st.disabled_rules, st.schema_files, st.workspace_root>>

\* C13, amended: a write guard is taken only to change the document map
\* (did_open, did_change, did_close), to load the configuration (initialize)
\* or to replace the catalog (initialized, and did_save of a schema file);
\* each writer changes only its own part of the state.
C13_WriteGuardPhases ==
    [][/\ (lock'.writer # 0 /\ lock'.writer # lock.writer) =>
            /\ lock.writer = 0
            /\ lock.readers = {}
            /\ \/ /\ handlers'[lock'.writer].kind = "initialize"
                  /\ handlers'[lock'.writer].pc = "load_config"
               \/ /\ handlers'[lock'.writer].kind \in {"initialized", "did_save"}
                  /\ handlers'[lock'.writer].pc = "rebuild"
       /\ state'.open_documents # state.open_documents =>
            /\ lock.writer = 0
            /\ lock.readers = {}
            /\ state'.catalog = state.catalog
            /\ ConfigOf(state') = ConfigOf(state)
            /\ \E h \in Handlers :
                 /\ handlers[h].kind \in {"did_open", "did_change", "did_close"}
                 /\ handlers[h].pc \in {"insert", "remove"}
                 /\ handlers'[h].pc # handlers[h].pc
       /\ state'.catalog # state.catalog =>
            /\ lock.writer # 0
            /\ handlers[lock.writer].kind \in {"initialized", "did_save"}
            /\ state'.open_documents = state.open_documents
            /\ ConfigOf(state') = ConfigOf(state)
       /\ ConfigOf(state') # ConfigOf(state) =>
            /\ lock.writer # 0
            /\ handlers[lock.writer].kind = "initialize"
            /\ state'.open_documents = state.open_documents
            /\ state'.catalog = state.catalog
      ]_vars

\* C13, amended, happens: the initialized handler holds the write guard of
\* its rebuild
C13_Witness ==
    /\ lock.writer # 0
    /\ handlers[lock.writer].kind = "initialized"
    /\ handlers[lock.writer].pc = "rebuild"

\* the catalogs a builder has finished building, and Catalog::default()
FinishedCatalogs ==
    {EmptyCatalog} \cup [version : 1..disk.version, parses : BOOLEAN]

\* C14: an analysis runs against the initial empty catalog or the complete
\* result of one finished rebuild, never against a catalog being built; the
\* catalog, the dialect and the disabled rules of one publish are those of the
\* one state the handler's read guard keeps from changing, and no write guard
\* coexists with a read guard.
C14_RebuildAtomicForReaders ==
    /\ lock.writer # 0 => lock.readers = {}
    /\ \A h \in Handlers :
        handlers[h].pc = "publish" =>
            /\ h \in lock.readers
            /\ handlers[h].diagnostics.kind = "analysis"
            /\ handlers[h].diagnostics.catalog = state.catalog
            /\ handlers[h].diagnostics.dialect = state.dialect
            /\ handlers[h].diagnostics.disabled = state.disabled_rules
            /\ handlers[h].diagnostics.catalog \in FinishedCatalogs

\* C14 happens: an analysis has run against a rebuilt catalog under the
\* configured dialect, and another handler waits for the write guard
C14_Witness ==
    \E h, g \in Handlers :
        /\ handlers[h].pc = "publish"
        /\ handlers[h].diagnostics.catalog # EmptyCatalog
        /\ handlers[h].diagnostics.dialect = ConfigFile.dialect
        /\ handlers[g].pc = "write_catalog"

\* C15: the analysis of a document leaves every field of the ServerState as
\* it was (and with it the catalog).
C15_AnalysisLeavesStateUnchanged ==
    [][\A h \in Handlers :
        (handlers[h].pc = "analyze" /\ handlers'[h].pc = "publish") =>
            state' = state
      ]_vars

\* C15 happens: a document stored in a state with a rebuilt catalog has been
\* analysed
C15_Witness ==
    \E h \in Handlers :
        /\ handlers[h].pc = "publish"
        /\ handlers[h].diagnostics.kind = "analysis"
        /\ handlers[h].uri \in DOMAIN state.open_documents
        /\ state.catalog.version > 0

(***************************************************************************)
(* The reading of a statement that the properties of the analyzer are      *)
(* stated against: the relation a FROM item names, the bindings a block    *)
(* contributes, the diagnostics about a block's column reference           *)
(***************************************************************************)
RefFold(c) ==
    [k \in 1..Len(c) |->
        IF \E n \in 1..Len(UpperLetters) : UpperLetters[n] = c[k]
        THEN LowerLetters[CHOOSE n \in 1..Len(UpperLetters) : UpperLetters[n] = c[k]]
        ELSE c[k]]
RefFolded == [c \in ColumnNames |-> RefFold(c)]

RefRelationExists(n) ==
    n \in (DOMAIN query.with) \cup (DOMAIN catalog.views) \cup (DOMAIN catalog.tables)

RefRelationColumns(n) ==
    IF n \in DOMAIN query.with THEN query.with[n]
    ELSE IF n \in DOMAIN catalog.views THEN catalog.views[n]
    ELSE IF n \in DOMAIN catalog.tables THEN catalog.tables[n]
    ELSE <<>>

RefFrame(k) ==
    LET from == query.blocks[k].from
    IN  { [name |-> from[j].alias,
           columns |-> { RefFolded[RefRelationColumns(from[j].name)[x]] :
                            x \in 1..Len(RefRelationColumns(from[j].name)) }] :
          j \in { j \in 1..Len(from) : RefRelationExists(from[j].name) } }

RefDiagnosticsOfRef(k) ==
    { i \in 1..Len(resolved) :
        /\ resolved[i].line = k
        /\ ~(/\ resolved[i].kind = "TableNotFound"
             /\ \E j \in 1..Len(query.blocks[k].from) :
                    query.blocks[k].from[j].name = resolved[i].name) }

RefSuppressed(d) ==
    /\ d.line \in DOMAIN disabled_lines
    /\ \/ disabled_lines[d.line].all
       \/ d.code \in disabled_lines[d.line].codes

(***************************************************************************)
(* Properties of the analyzer                                              *)
(***************************************************************************)
\* C11: analyze returns exactly the diagnostics of the resolver whose (code,
\* line) pair the directives of the text do not suppress, in the order the
\* resolver produced them: the j-th diagnostic returned is the j-th
\* unsuppressed diagnostic of the resolver.
C11_AnalyzeReturnsUnsuppressed ==
    query # NoQuery =>
        LET kept == { i \in 1..Len(resolved) : ~RefSuppressed(resolved[i]) }
        IN  /\ Len(diagnostics) = Cardinality(kept)
            /\ \A i \in kept :
                 diagnostics[Cardinality({ m \in kept : m <= i })] = resolved[i]

\* C11 happens: the resolver produced a diagnostic the text suppresses and,
\* on the same line, one with another code that the analysis returned
C11_Witness ==
    /\ query # NoQuery
    /\ \E i, j \in 1..Len(resolved) :
        /\ RefSuppressed(resolved[i])
        /\ ~RefSuppressed(resolved[j])
        /\ resolved[i].line = resolved[j].line
    /\ Len(diagnostics) > 0

C17_ScopeIsolation ==
    \A k \in 1..(Len(query.blocks) - 1) :
        SelectSeq(resolved, LAMBDA d : d.line <= k) =
            resolve_query(begin_analysis(Analyzer_new, query.with), catalog,
                          SubSeq(query.blocks, 1, k), 1).diagnostics

\* C17 happens: user_id is a column of a table of the subquery only, and the
\* reference to it in the enclosing block, resolved after the subquery, is
\* not found
C17_Witness ==
    /\ Len(query.blocks) = 2
    /\ query.with = NoWith
    /\ query.blocks[1].from = <<FromItem(t_users, a_u)>>
    /\ query.blocks[1].ref = ColumnRef(NoQualifier, c_user_id)
    /\ query.blocks[2].from = <<FromItem(t_users, a_u), FromItem(t_orders, a_o)>>
    /\ \E i \in 1..Len(resolved) :
        /\ resolved[i].kind = "ColumnNotFound"
        /\ resolved[i].line = 1

\* C18: an unqualified column c is looked up in the current frame, then in
\* the outer frames from the nearest outward; the nearest frame with a match
\* decides: no frame with a match gives one ColumnNotFound for c, more than
\* one match in that frame gives one AmbiguousColumn for c, one match gives
\* no diagnostic.
C18_UnqualifiedColumnResolution ==
    \A k \in 1..Len(query.blocks) :
        LET ref == query.blocks[k].ref
            M(j) == { b \in RefFrame(j) : RefFolded[ref.column] \in b.columns }
            J == { j \in 1..k : M(j) # {} }
            D == RefDiagnosticsOfRef(k)
        IN  ref.qualifier = NoQualifier =>
                IF J = {}
                THEN /\ Cardinality(D) = 1
                     /\ \A i \in D : /\ resolved[i].kind = "ColumnNotFound"
                                     /\ resolved[i].name = ref.column
                ELSE LET near == CHOOSE j \in J : \A m \in J : m <= j
                     IN  IF Cardinality(M(near)) > 1
                         THEN /\ Cardinality(D) = 1
                              /\ \A i \in D : /\ resolved[i].kind = "AmbiguousColumn"
                                              /\ resolved[i].name = ref.column
                         ELSE D = {}

\* C18 happens: id is no column of the subquery's own relation and is a
\* column of both tables of the enclosing block: ambiguous
C18_Witness ==
    /\ Len(query.blocks) = 2
    /\ query.with # NoWith
    /\ query.blocks[1].from = <<FromItem(t_users, a_u), FromItem(t_orders, a_o)>>
    /\ query.blocks[2].from = <<FromItem(t_recent, a_r)>>
    /\ query.blocks[2].ref = ColumnRef(NoQualifier, c_id)
    /\ \E i \in 1..Len(resolved) :
        /\ resolved[i].kind = "AmbiguousColumn"
        /\ resolved[i].line = 2

\* C19: a qualified reference a.c takes the binding a of the current frame,
\* else of the nearest outer frame that has one; no frame with a gives one
\* TableNotFound for a; a found without a column c, compared without regard
\* to case, gives one ColumnNotFound for c; otherwise no diagnostic.
C19_QualifiedColumnResolution ==
    \A k \in 1..Len(query.blocks) :
        LET ref == query.blocks[k].ref
            J == { j \in 1..k : \E b \in RefFrame(j) : b.name = ref.qualifier }
            D == RefDiagnosticsOfRef(k)
        IN  ref.qualifier # NoQualifier =>
                IF J = {}
                THEN /\ Cardinality(D) = 1
                     /\ \A i \in D : /\ resolved[i].kind = "TableNotFound"
                                     /\ resolved[i].name = ref.qualifier
                ELSE LET near == CHOOSE j \in J : \A m \in J : m <= j
                         b == CHOOSE b \in RefFrame(near) : b.name = ref.qualifier
                     IN  IF RefFolded[ref.column] \in b.columns
                         THEN D = {}
                         ELSE /\ Cardinality(D) = 1
                              /\ \A i \in D : /\ resolved[i].kind = "ColumnNotFound"
                                              /\ resolved[i].name = ref.column

\* C19 happens: u.ID in a subquery whose own FROM has no u: the binding u of
\* the enclosing block has the column id
C19_Witness ==
    /\ Len(query.blocks) = 2
    /\ query.blocks[1].from = <<FromItem(t_users, a_u)>>
    /\ query.blocks[2].from = <<FromItem(t_recent, a_r)>>
    /\ query.blocks[2].ref = ColumnRef(a_u, c_ID)
    /\ \A i \in 1..Len(resolved) : resolved[i].line # 2

\* C20: a FROM item named n is bound to the CTE n if the WITH clause has one,
\* else to the view n, else to the table n: TableNotFound is emitted for n
\* exactly when none of the three exists, and the columns an unqualified
\* reference of the outermost block can name are those of the relation that
\* wins.
C20_FromItemOrder ==
    /\ \A k \in 1..Len(query.blocks) :
        \A j \in 1..Len(query.blocks[k].from) :
            LET n == query.blocks[k].from[j].name
            IN  (\E i \in 1..Len(resolved) :
                    /\ resolved[i].kind = "TableNotFound"
                    /\ resolved[i].line = k
                    /\ resolved[i].name = n)
                <=> ~( \/ n \in DOMAIN query.with
                       \/ n \in DOMAIN catalog.views
                       \/ n \in DOMAIN catalog.tables )
    /\ (query # NoQuery /\ query.blocks[1].ref.qualifier = NoQualifier) =>
        LET ref == query.blocks[1].ref
            from == query.blocks[1].from
            winner(n) ==
                IF n \in DOMAIN query.with THEN query.with[n]
                ELSE IF n \in DOMAIN catalog.views THEN catalog.views[n]
                ELSE IF n \in DOMAIN catalog.tables THEN catalog.tables[n]
                ELSE <<>>
        IN  (\E i \in 1..Len(resolved) :
                /\ resolved[i].kind = "ColumnNotFound"
                /\ resolved[i].line = 1)
            <=> \A j \in 1..Len(from) :
                    \A x \in 1..Len(winner(from[j].name)) :
                        RefFolded[winner(from[j].name)[x]] # RefFolded[ref.column]

\* C20 happens: recent is a CTE, a view and a table at once, and the column
\* of the CTE is the one the block can name
C20_Witness ==
    /\ query # NoQuery
    /\ t_recent \in DOMAIN query.with
    /\ t_recent \in DOMAIN catalog.views
    /\ t_recent \in DOMAIN catalog.tables
    /\ query.blocks[1].from = <<FromItem(t_recent, a_r)>>
    /\ query.blocks[1].ref = ColumnRef(NoQualifier, c_total)
    /\ \A i \in 1..Len(resolved) : resolved[i].line # 1

(***************************************************************************)
(* The adapter and the dialect                                             *)
(***************************************************************************)
\* an unsigned integer widened to n limbs
RefWiden(x, n) == [i \in 1..n |-> IF i <= Len(x) THEN x[i] ELSE 0]

RECURSIVE RefCarry(_, _, _)
RefCarry(a, b, i) ==
    IF i = 0 THEN 0 ELSE (a[i] + b[i] + RefCarry(a, b, i - 1)) \div LIMB

\* a + b as integers, over one limb more than a usize has
RefSum(a, b) ==
    LET wa == RefWiden(a, USIZE_LIMBS + 1)
        wb == RefWiden(b, USIZE_LIMBS + 1)
    IN  [i \in 1..(USIZE_LIMBS + 1) |->
            (wa[i] + wb[i] + RefCarry(wa, wb, i - 1)) % LIMB]

RefInteger(x) == RefWiden(x, USIZE_LIMBS + 1)

\* C25: for every span with line >= 1 and column >= 1, the range starts at
\* (line - 1, column - 1) and ends on the same line at character
\* column - 1 + length, so that end.character - start.character is the length
\* of the span.
C25_RangeOfSpan ==
    (/\ call.fn = "span_to_range"
     /\ call.span # None
     /\ ~is_zero(call.span.line)
     /\ ~is_zero(call.span.column))
    => /\ returned # Panicked
       /\ RefInteger(returned.start.line) = RefInteger(wrapping_sub_1(call.span.line))
       /\ RefInteger(returned.start.character)
            = RefInteger(wrapping_sub_1(call.span.column))
       /\ returned.end.line = returned.start.line
       /\ RefInteger(returned.end.character)
            = RefSum(wrapping_sub_1(call.span.column), call.span.length)
       /\ RefSum(returned.start.character, call.span.length)
            = RefInteger(returned.end.character)

\* the positions in the diagnostics handed to the adapter of those whose code
\* is no disabled rule
RefKept == {i \in 1..Len(call.diagnostics) :
               \A rule \in call.disabled_rules :
                   rule # code_of(call.diagnostics[i].kind)}
RefRank(i) == Cardinality({j \in RefKept : j <= i})

\* C26: to_lsp_diagnostics returns exactly the diagnostics handed to it whose
\* code is not in the disabled set, in the order they came in; an entry of the
\* set that is the code of no diagnostic removes nothing.
C26_DisabledRulesFilter ==
    call.fn = "to_lsp_diagnostics"
    => /\ returned # Panicked
       /\ Len(returned.diagnostics) = Cardinality(RefKept)
       /\ \A i \in RefKept :
            /\ returned.diagnostics[RefRank(i)].code = code_of(call.diagnostics[i].kind)
            /\ returned.diagnostics[RefRank(i)].message = call.diagnostics[i].message

\* C26 happens: a rule of the set removed a diagnostic between two that stay,
\* and the set holds a code no diagnostic has.
C26_Witness ==
    /\ call.fn = "to_lsp_diagnostics"
    /\ Len(call.diagnostics) = 3
    /\ RefKept = {1, 3}
    /\ call.diagnostics[1].kind # call.diagnostics[3].kind
    /\ E9999 \in call.disabled_rules
    /\ returned # Panicked
    /\ Len(returned.diagnostics) = 2

\* C27: the default schema is `public` for PostgreSQL and the empty string for
\* MySQL and SQLite, whatever was called before.
C27_DefaultSchema ==
    call.fn = "default_schema"
    => returned.schema = (IF call.dialect = "PostgreSQL" THEN "public" ELSE "")

\* C27 happens: the default schema of MySQL or SQLite was asked for.
C27_Witness ==
    /\ call.fn = "default_schema"
    /\ call.dialect \in {"MySQL", "SQLite"}
    /\ returned.schema = ""

\* C29: did_close removes its URI from open_documents and leaves the entry of
\* every other document as it is; only after that, in a later step, it
\* publishes the empty list of diagnostics for that URI, and for no other.
C29_CloseRemovesThenClears ==
    [][\A h \in Handlers :
        LET a == handlers[h]
            b == handlers'[h]
            before == state.open_documents
            after == state'.open_documents
        IN  /\ (b.kind = "did_close" /\ a.kind # "did_close") => b.pc = "remove"
            /\ (b.kind = "did_close" /\ b.pc = "clear" /\ a # b) =>
                    (a.kind = "did_close" /\ a.pc = "remove")
            /\ (a.kind = "did_close" /\ a.pc = "remove" /\ b # a) =>
                    /\ b.pc = "clear"
                    /\ b.uri = a.uri
                    /\ DOMAIN after = (DOMAIN before) \ {a.uri}
                    /\ \A u \in DOMAIN after : after[u] = before[u]
                    /\ published' = published
            /\ (a.kind = "did_close" /\ a.pc = "clear" /\ b # a) =>
                    /\ b.pc = "done"
                    /\ published'[a.uri] = EmptyList
                    /\ \A u \in Uris \ {a.uri} : published'[u] = published[u]
                    /\ state' = state
      ]_vars

\* C29 happens: a did_close has removed its document while another document
\* stays open with its text, and the diagnostics it is about to clear are
\* still the published ones.
C29_Witness ==
    \E h \in Handlers :
        /\ handlers[h].kind = "did_close"
        /\ handlers[h].pc = "clear"
        /\ handlers[h].uri \notin DOMAIN state.open_documents
        /\ \E u \in DOMAIN state.open_documents : state.open_documents[u] \in Texts
        /\ published[handlers[h].uri].kind = "analysis"

(***************************************************************************)
(* The schema builder                                                      *)
(***************************************************************************)
\* the builder after the first i statements of the schema text
RefBuilder(i) == apply_statements(SchemaBuilder_new, call.statements, i)
RefColumns(i, t) == RefBuilder(i).tables[t]
RefHas(cols, c) == \E k \in 1..Len(cols) : cols[k] = c
RefWithout(cols, c) == SelectSeq(cols, LAMBDA x : x # c)
RefIsAlter(stmt) == stmt.op \in {"ADD COLUMN", "DROP COLUMN", "RENAME COLUMN"}
\* statement i names a table, or a column to drop or to rename, that the
\* builder does not have when the statement is reached
RefMissingTable(i) == call.statements[i].table \notin DOMAIN RefBuilder(i - 1).tables
RefMissingColumn(i) ==
    /\ ~RefMissingTable(i)
    /\ call.statements[i].op \in {"DROP COLUMN", "RENAME COLUMN"}
    /\ ~RefHas(RefColumns(i - 1, call.statements[i].table), call.statements[i].column)
RefSteps == 1..Len(call.statements)
RefRoundTrips ==
    {i \in RefSteps :
        /\ i + 2 <= Len(call.statements)
        /\ ~RefMissingTable(i)
        /\ \E c, d \in AlterNames :
            LET t == call.statements[i].table
            IN  /\ call.statements[i] = AddColumn(t, c)
                /\ call.statements[i + 1] = RenameColumn(t, c, d)
                /\ call.statements[i + 2] = DropColumn(t, d)}

\* C22: for any table and any names c and d, ADD COLUMN c, then RENAME COLUMN
\* c TO d, then DROP COLUMN d leave the column names of the table and their
\* order as they were; ADD appends, RENAME keeps the position of the column
\* and DROP removes the named column only.
C22_RenamesCompose ==
    call.fn = "SchemaBuilder"
    => /\ \A i \in RefRoundTrips :
            RefColumns(i + 2, call.statements[i].table)
                = RefColumns(i - 1, call.statements[i].table)
       /\ \A i \in RefSteps :
            LET stmt == call.statements[i]
                before == RefColumns(i - 1, stmt.table)
                after == RefColumns(i, stmt.table)
            IN  (RefIsAlter(stmt) /\ ~RefMissingTable(i) /\ ~RefMissingColumn(i)) =>
                    CASE stmt.op = "ADD COLUMN" -> after = Append(before, stmt.column)
                      [] stmt.op = "RENAME COLUMN" ->
                            /\ Len(after) = Len(before)
                            /\ \A k \in 1..Len(before) :
                                after[k] = IF before[k] = stmt.column THEN stmt.to
                                           ELSE before[k]
                      [] stmt.op = "DROP COLUMN" -> after = RefWithout(before, stmt.column)

\* C22, amended: for any table and any names c and d that are not names of
\* columns of the table, ADD COLUMN c, then RENAME COLUMN c TO d, then DROP
\* COLUMN d leave the column names of the table and their order as they were;
\* ADD of a name the table does not have appends, RENAME to a name the table
\* does not have (or to the old name) keeps the position of the column, and
\* DROP removes the named column only.
C22_RenamesComposeFreshNames ==
    call.fn = "SchemaBuilder"
    => /\ \A i \in RefRoundTrips :
            LET t == call.statements[i].table
                before == RefColumns(i - 1, t)
            IN  (/\ ~RefHas(before, call.statements[i].column)
                 /\ ~RefHas(before, call.statements[i + 1].to))
                => RefColumns(i + 2, t) = before
       /\ \A i \in RefSteps :
            LET stmt == call.statements[i]
                before == RefColumns(i - 1, stmt.table)
                after == RefColumns(i, stmt.table)
            IN  (RefIsAlter(stmt) /\ ~RefMissingTable(i) /\ ~RefMissingColumn(i)) =>
                    CASE stmt.op = "ADD COLUMN" ->
                            ~RefHas(before, stmt.column)
                                => after = Append(before, stmt.column)
                      [] stmt.op = "RENAME COLUMN" ->
                            (stmt.to = stmt.column \/ ~RefHas(before, stmt.to))
                                => /\ Len(after) = Len(before)
                                   /\ \A k \in 1..Len(before) :
                                        after[k] = IF before[k] = stmt.column
                                                   THEN stmt.to ELSE before[k]
                      [] stmt.op = "DROP COLUMN" -> after = RefWithout(before, stmt.column)

\* C22, amended, happens: users (id, name) got the column c, c was renamed to
\* d in the third place, d was dropped, and the table is (id, name) again.
C22_Witness ==
    /\ call.fn = "SchemaBuilder"
    /\ call.statements = <<CreateTable("users", <<"id", "name">>),
                           AddColumn("users", "c"),
                           RenameColumn("users", "c", "d"),
                           DropColumn("users", "d")>>
    /\ RefColumns(3, "users") = <<"id", "name", "d">>
    /\ returned.catalog["users"] = <<"id", "name">>

\* C23: an ALTER statement that names a table, or a column to drop or to
\* rename, that does not exist adds one warning and leaves every table as it
\* was; the statements after it are applied as if it had not been written,
\* and parse returns Ok.
C23_MissingTargetWarns ==
    call.fn = "SchemaBuilder"
    => /\ returned.parse = "Ok"
       /\ \A i \in RefSteps :
            (RefIsAlter(call.statements[i]) /\ (RefMissingTable(i) \/ RefMissingColumn(i)))
            => /\ RefBuilder(i).tables = RefBuilder(i - 1).tables
               /\ Len(RefBuilder(i).diagnostics) = Len(RefBuilder(i - 1).diagnostics) + 1
               /\ SubSeq(RefBuilder(i).diagnostics, 1, Len(RefBuilder(i - 1).diagnostics))
                    = RefBuilder(i - 1).diagnostics
               /\ LET d == RefBuilder(i).diagnostics[Len(RefBuilder(i).diagnostics)]
                  IN  /\ d.severity = "Warning"
                      /\ d.kind = IF RefMissingTable(i) THEN "TableNotFound"
                                  ELSE "ColumnNotFound"
               /\ returned.catalog
                    = build_schema(SubSeq(call.statements, 1, i - 1)
                                   \o SubSeq(call.statements, i + 1,
                                             Len(call.statements))).catalog

\* C23 happens: a column was added to a table that does not exist, the
\* warning is there, and the statement after it has added its column.
C23_Witness ==
    /\ call.fn = "SchemaBuilder"
    /\ Len(call.statements) = 3
    /\ call.statements[2] = AddColumn("nonexistent", "c")
    /\ call.statements[3] = AddColumn("users", "d")
    /\ returned.parse = "Ok"
    /\ RefHas(returned.catalog["users"], "d")
    /\ returned.diagnostics = <<Warning("TableNotFound", "nonexistent")>>

\* the statements of the schema files that were read and parsed, in the order
\* of schema_files
RECURSIVE RefGoodStatements(_, _)
RefGoodStatements(disk_files, n) ==
    IF n = 0 THEN <<>>
    ELSE RefGoodStatements(disk_files, n - 1)
            \o (IF disk_files[n].read = "Ok" /\ disk_files[n].parses
                THEN disk_files[n].statements ELSE <<>>)
RefFailedFiles == {i \in 1..Len(call.disk) :
                      call.disk[i].read = "Err" \/ ~call.disk[i].parses}
RefErrorsOfFiles == SelectSeq(returned.errors, LAMBDA e : e.file # 0)

\* C30: rebuild_catalog always replaces the catalog with what the builder
\* makes of the schema files that could be read and parsed; each file that
\* fails to read or to parse adds an error string to the returned list, and
\* neither the files after it nor the replacement of the catalog are skipped.
C30_RebuildSkipsFailedFiles ==
    call.fn = "rebuild_catalog"
    => /\ returned.state.catalog
            = build_schema(RefGoodStatements(call.disk, Len(call.disk))).catalog
       /\ returned.state = [call.state EXCEPT !.catalog = returned.state.catalog]
       /\ Len(RefErrorsOfFiles) = Cardinality(RefFailedFiles)
       /\ \A k \in 1..Len(RefErrorsOfFiles) :
            /\ RefErrorsOfFiles[k].file \in RefFailedFiles
            /\ Cardinality({i \in RefFailedFiles : i <= RefErrorsOfFiles[k].file}) = k
            /\ RefErrorsOfFiles[k].text
                = (IF call.disk[RefErrorsOfFiles[k].file].read = "Err"
                   THEN "Failed to read" ELSE "ParseError")

\* C30 happens: the first schema file could not be read, the second could not
\* be parsed, the third was applied, and the catalog of the earlier build is
\* gone.
C30_Witness ==
    /\ call.fn = "rebuild_catalog"
    /\ Len(call.disk) = 3
    /\ call.disk[1] = ReadError
    /\ call.disk[2] = Unparsable
    /\ call.state.catalog = StaleCatalog
    /\ returned.state.catalog = "users" :> <<"id", "name">>
    /\ Len(returned.errors) = 2

(***************************************************************************)
(* Failures and types                                                      *)
(***************************************************************************)
\* the type the UPDATE tests give an expression, and its family
RefTypes ==
    ("integer" :> "numeric") @@ ("string" :> "text") @@ ("boolean" :> "boolean")
        @@ ("NULL" :> "Null") @@ ("function" :> "Unknown")
RefFamily(expr) ==
    IF expr.form # "column" THEN RefTypes[expr.form]
    ELSE IF expr.name \in {"id", "user_id", "total"} THEN "numeric"
    ELSE "Unknown"
RefUnresolved(expr) == expr.form = "column" /\ expr.name \notin {"id", "user_id", "total"}
\* the two expressions checked at place k of the statement: a SET entry's
\* column and value, or the two sides of the WHERE comparison
RefPlaces == 1..(Len(call.statement.set) + 1)
RefSides(k) ==
    IF k <= Len(call.statement.set)
    THEN <<Column(call.statement.set[k].column), call.statement.set[k].value>>
    ELSE <<call.statement.where.left, call.statement.where.right>>
\* the failures of the statement, each on its own: an expression that does
\* not resolve, and two resolved types of different families
RefFailures ==
    {f \in RefPlaces \X {"ColumnNotFound"} \X {1, 2} :
        RefUnresolved(RefSides(f[1])[f[3]])}
    \cup {f \in RefPlaces \X {"TypeMismatch"} \X {1} :
            /\ RefFamily(RefSides(f[1])[1]) \notin {"Null", "Unknown"}
            /\ RefFamily(RefSides(f[1])[2]) \notin {"Null", "Unknown"}
            /\ RefFamily(RefSides(f[1])[1]) # RefFamily(RefSides(f[1])[2])}
RefDiagnosticsAt(k, kind) ==
    {i \in 1..Len(returned.diagnostics) :
        returned.diagnostics[i].at = k /\ returned.diagnostics[i].kind = kind}

\* C21: a resolution or type failure on one expression does not stop the
\* analysis of the statement: every failure of the statement has its own
\* diagnostic; a text the parser rejects gives one ParseError and nothing
\* else.
C21_EveryFailureItsDiagnostic ==
    call.fn = "analyze_update"
    => IF call.statement.parses
       THEN /\ Len(returned.diagnostics) = Cardinality(RefFailures)
            /\ \A k \in RefPlaces, kind \in {"ColumnNotFound", "TypeMismatch"} :
                Cardinality(RefDiagnosticsAt(k, kind))
                    = Cardinality({f \in RefFailures : f[1] = k /\ f[2] = kind})
       ELSE /\ Len(returned.diagnostics) = 1
            /\ returned.diagnostics[1].kind = "ParseError"

\* C21 happens: UPDATE orders SET user_id = 'text', total = true has given its
\* two TypeMismatch diagnostics, one for each entry.
C21_Witness ==
    /\ call.fn = "analyze_update"
    /\ call.statement.parses
    /\ call.statement.set = <<[column |-> "user_id", value |-> Literal("string")],
                              [column |-> "total", value |-> Literal("boolean")]>>
    /\ call.statement.where = NoWhere
    /\ Len(returned.diagnostics) = 2
    /\ \A i \in 1..2 : /\ returned.diagnostics[i].kind = "TypeMismatch"
                       /\ returned.diagnostics[i].at = i

\* C24: in an assignment and in a comparison, a side typed Null or Unknown is
\* compatible with whatever is on the other side: no TypeMismatch is reported
\* at a place where one of the two expressions is NULL, a call of an unknown
\* function or an unresolved column.
C24_NullAndUnknownCompatible ==
    (call.fn = "analyze_update" /\ call.statement.parses)
    => \A k \in RefPlaces :
        (\E side \in {1, 2} : RefFamily(RefSides(k)[side]) \in {"Null", "Unknown"})
            => RefDiagnosticsAt(k, "TypeMismatch") = {}

\* C24 happens: NULL was assigned to an Integer column and stands on the left
\* of a comparison with one, while the mismatch of the other entry was
\* reported.
C24_Witness ==
    /\ call.fn = "analyze_update"
    /\ call.statement.parses
    /\ call.statement.set = <<[column |-> "user_id", value |-> Literal("NULL")],
                              [column |-> "total", value |-> Literal("boolean")]>>
    /\ call.statement.where = [left |-> Literal("NULL"), right |-> Column("user_id")]
    /\ Len(returned.diagnostics) = 1
    /\ returned.diagnostics[1].kind = "TypeMismatch"
    /\ returned.diagnostics[1].at = 2

\* the versions a schema file and a catalog can have in a late session: the
\* first, and one more for each save
RefVersions == 1..(MaxHandlers - 2)
\* the handler in task h is that of a did_save of a schema file and has not yet
\* asked for a guard, the file on disk having version v
RefSchemaSaved(h, v) ==
    /\ handlers[h].kind = "did_save"
    /\ handlers[h].pc = "check_schema"
    /\ is_schema_file(state, handlers[h].uri)
    /\ disk.version = v
\* the did_save in task h has taken its snapshot, document u is in it, and the
\* catalog has version v
RefSnapshotHas(h, u, v) ==
    /\ handlers[h].kind = "did_save"
    /\ handlers[h].pc = "analyze"
    /\ (handlers[h].uri = u \/ \E d \in handlers[h].snapshot : d[1] = u)
    /\ state.catalog.version = v
RefPublishedAgainst(u, v) ==
    /\ published[u].kind = "analysis"
    /\ published[u].catalog.version >= v

RefOrigin == [line |-> <<0, 0>>, character |-> <<0, 0>>]

\* C31: a missing span, or a span whose line is 0, is converted to the range
\* from (0, 0) to (0, 0), whatever its column and length are and whether the
\* build checks overflow or not: the line subtraction is not done.
C31_NoLineDefaultRange ==
    (/\ call.fn = "span_to_range"
     /\ (call.span = None \/ is_zero(call.span.line)))
    => /\ returned # Panicked
       /\ returned.start = RefOrigin
       /\ returned.end = RefOrigin

\* a span of line 0 with the largest column and a length that would leave
\* u32 was converted by a build that checks overflow
C31_Witness ==
    /\ call.fn = "span_to_range"
    /\ call.span # None
    /\ is_zero(call.span.line)
    /\ call.span.column = <<LIMB - 1, LIMB - 1, 0, 0>>
    /\ call.span.length = <<2, 0, 0, 0>>
    /\ call.overflow_checks
    /\ returned.start = RefOrigin

(***************************************************************************)
(* The dialect: names                                                      *)
(***************************************************************************)
\* the names of each dialect, as the documentation lists them
RefNames ==
    ("PostgreSQL" :> {<<"p","o","s","t","g","r","e","s","q","l">>, <<"p","o","s","t","g","r","e","s">>, <<"p","g">>})
    @@ ("MySQL" :> {<<"m","y","s","q","l">>, <<"m","y","s","q","l","8">>})
    @@ ("SQLite" :> {<<"s","q","l","i","t","e">>, <<"s","q","l","i","t","e","3">>})
\* a and b are the same letter in either case, or the same character
RefSameLetter(a, b) ==
    \/ a = b
    \/ \E k \in 1..Len(LowerLetters) :
        {a, b} = {LowerLetters[k], UpperLetters[k]}
\* s is name written in some letter case
RefSpells(s, name) ==
    /\ Len(s) = Len(name)
    /\ \A k \in 1..Len(s) : RefSameLetter(s[k], name[k])
\* the dialects one of whose names s spells
RefDialectsOf(s) ==
    { d \in SqlDialects : \E name \in RefNames[d] : RefSpells(s, name) }

\* C33: for each of the three dialects d, parsing the string that Display
\* prints for d yields d again; parsing accepts the listed names in any
\* letter case, and any other string yields an error and no dialect.
C33_DialectNames ==
    /\ call.fn = "to_string().parse()" => returned = [ok |-> call.dialect]
    /\ call.fn = "from_str" =>
        IF RefDialectsOf(call.s) = {}
        THEN DOMAIN returned = {"err"}
        ELSE /\ DOMAIN returned = {"ok"}
             /\ RefDialectsOf(call.s) = {returned.ok}

\* a name written in mixed case was parsed to its dialect, or a name with a
\* space after it was refused
C33_Witness ==
    /\ call.fn = "from_str"
    /\ \/ call.s = <<"S","q","l","i","t","e","3">> /\ returned = [ok |-> "SQLite"]
       \/ call.s = <<"s","q","l","i","t","e","3"," ">> /\ DOMAIN returned = {"err"}

(***************************************************************************)
(* Properties of the directive scanner, continued (SpecDirectives)         *)
(***************************************************************************)
\* C32: a comment is a directive when the keyword `sqlsift:disable` is
\* followed by nothing, by whitespace or by a comma; the codes after the
\* keyword may be separated by commas, spaces or both, and every non-empty
\* token becomes one suppressed code: what the scanner reads from a line
\* that has a comment is what the directive syntax reads from it.
C32_DirectiveSyntax ==
    parsed =>
        \A n \in 1..Len(sql) :
            LET syntax == RefLine[sql[n]]
                codes == parse_directive_from_line(sql[n])
            IN  syntax.comment =>
                    /\ codes.some = syntax.dir
                    /\ syntax.dir =>
                        IF syntax.listed = {}
                        THEN codes.all
                        ELSE /\ ~codes.all
                             /\ codes.codes = { Canonical(s) : s \in syntax.listed }

\* line n of the text is a comment line from which the scanner reads a
\* directive (a standalone directive line)
RefStandalone(text, n) ==
    /\ directive_of[text[n]].some
    /\ starts_with(trimmed_of[text[n]], DASHES)
\* line n holds SQL and a directive of its own
RefInline(text, n) ==
    /\ directive_of[text[n]].some
    /\ ~starts_with(trimmed_of[text[n]], DASHES)
\* line n holds SQL and no directive
RefPlainSql(text, n) ==
    /\ ~directive_of[text[n]].some
    /\ IsSqlLine[text[n]]
\* the first line after d that holds SQL and no directive; 0 if there is none
RefFirstPlainSql(text, d) ==
    IF \E j \in (d + 1)..Len(text) : RefPlainSql(text, j)
    THEN CHOOSE j \in (d + 1)..Len(text) :
            /\ RefPlainSql(text, j)
            /\ \A i \in (d + 1)..(j - 1) : ~RefPlainSql(text, i)
    ELSE 0
\* the directive lines other than d whose codes belong on line j: line j
\* itself if it has a directive of its own, and the standalone directive
\* lines of which j is the first later line of plain SQL
RefOthersOn(text, j, d) ==
    { e \in (1..Len(text)) \ {d} :
        \/ e = j /\ RefInline(text, j)
        \/ RefStandalone(text, e) /\ RefFirstPlainSql(text, e) = j }
\* code c is listed by the directive of line e (which lists every code if it
\* lists none)
RefLists(text, e, c) ==
    LET codes == directive_of[text[e]]
    IN  codes.all \/ c \in codes.codes

RefPendingLists(text, k, c) ==
    LET pending == parse_loop(text, k).pending_codes
    IN  pending.some /\ (pending.all \/ c \in pending.codes)

RefClosing(uri) ==
    \E h \in Handlers :
        /\ Running(h)
        /\ handlers[h].kind = "did_close"
        /\ handlers[h].uri = uri

\* C36: under any interleaving of handlers, once did_close for a URI has
\* published the empty list, no later publish for that URI carries
\* diagnostics unless the document is opened or changed again afterwards:
\* while the client holds the document closed and every did_close of it has
\* returned, a step that publishes for the URI publishes the empty list.
C36_NoPublishAfterClose ==
    [][\A uri \in Uris :
        (/\ client_documents[uri] = NoText
         /\ client_documents'[uri] = NoText
         /\ ~RefClosing(uri)
         /\ published[uri].kind = "empty"
         /\ published'[uri] # published[uri])
        => published'[uri].kind = "empty"]_vars

\* the handler in task h holds a guard of the lock
RefHoldsGuard(h) == lock.writer = h \/ h \in lock.readers
\* the await points at which a handler asks for a guard
RefGuardRequests ==
    {"write_config", "write_catalog", "count", "insert", "analyze",
     "check_schema", "snapshot", "remove"}
\* the handler in task h has not returned and cannot take its next step
RefBlocked(h) == Running(h) /\ ~ENABLED HandlerStep(h)

\* C37: no handler requests a guard on ServerState while it already holds
\* one, so under every interleaving of handlers there is no reachable state
\* in which all running handlers are blocked waiting for the state lock.
C37_NoLockDeadlock ==
    /\ \A h \in Handlers :
        handlers[h].pc \in RefGuardRequests => ~RefHoldsGuard(h)
    /\ (\E h \in Handlers : Running(h))
        => \E h \in Handlers : Running(h) /\ ~RefBlocked(h)

\* one handler waits for the write guard while another holds a read guard
\* across its publish
C37_Witness ==
    \E h, g \in Handlers :
        /\ handlers[h].pc \in {"insert", "remove", "write_catalog"}
        /\ RefBlocked(h)
        /\ handlers[g].pc = "publish"
        /\ g \in lock.readers

\* the texts the last events left: for every URI whose last event, leaving
\* aside the changes with no content, was a did_open or a did_change, the
\* text that event carried
RefLastTexts ==
    [u \in {v \in Uris : client_documents[v] # NoText} |-> client_documents[u]]

\* C38: after any sequence of did_open, did_change and did_close handled one
\* at a time, open_documents holds exactly the URIs whose last event (leaving
\* aside changes with no content) was an open or a change, each with the full
\* text of that event; a did_change with no content changes starts no work,
\* alters nothing and publishes nothing; a did_change for a URI that is not
\* open inserts it.
C38_DocumentsFollowEvents ==
    /\ [](InTurn => state.open_documents = RefLastTexts)
    /\ [][(\E h \in Handlers : handlers[h].pc = "idle" /\ handlers'[h].pc = "done")
            => /\ UNCHANGED <<state, published, lock>>
               /\ \A h \in Handlers : ~Running(h)']_vars
    /\ [][\A h \in Handlers :
            (/\ handlers[h].kind = "did_change"
             /\ handlers[h].pc = "insert"
             /\ handlers'[h].pc # "insert")
            => /\ handlers[h].uri \in DOMAIN state'.open_documents
               /\ state'.open_documents[handlers[h].uri] = handlers[h].text
               /\ \A u \in DOMAIN state.open_documents \ {handlers[h].uri} :
                    /\ u \in DOMAIN state'.open_documents
                    /\ state'.open_documents[u] = state.open_documents[u]]_vars

\* q.sql was opened, changed with no content, closed, and then changed with
\* a text: it is in open_documents again with the text of the change
C38_Witness ==
    /\ InTurn
    /\ \A h \in Handlers : handlers[h].pc = "done"
    /\ published[QUERY_URI] = lsp_diagnostics_of(state, "t2")
    /\ QUERY_URI \in DOMAIN state.open_documents
    /\ state.open_documents[QUERY_URI] = "t2"
    /\ SCHEMA_URI \notin DOMAIN state.open_documents
    /\ published[SCHEMA_URI].kind = "empty"

\* what the scanner reads from line l when l is the whole text: the codes it
\* leaves pending (l is a standalone directive), the codes it suppresses on
\* the line (l has SQL and a directive), or no directive
RefAlone(l) ==
    LET scanned == parse_loop(<<l>>, 1)
    IN  [standalone |-> scanned.pending_codes.some,
         inline |-> 1 \in DOMAIN scanned.disabled_lines,
         codes |-> IF scanned.pending_codes.some THEN scanned.pending_codes
                   ELSE IF 1 \in DOMAIN scanned.disabled_lines
                   THEN scanned.disabled_lines[1]
                   ELSE NoDirective]
RefAloneOf == [l \in InputLines |-> RefAlone(l)]
\* the directive codes (or no directive) list code c
RefCodesList(codes, c) == codes.some /\ (codes.all \/ c \in codes.codes)

RefMergedInto(k, line) == { j \in 1..k : call.merges[j].line = line }
\* the map after the first k calls
RefMapAfter(k) == returned.maps[k + 1]

\* C40: merging directive code sets for one line is order-independent and
\* idempotent: after any number of merges the entry of a line is `all rules`
\* if any merged directive had no codes and otherwise the union of the code
\* sets (a function of which directives were merged, not of their order or
\* number), so once a line is `all rules` no later merge narrows it; and the
\* set of suppressed (code, line) pairs only grows from one merge to the
\* next.
C40_MergeIsUnion ==
    call.fn = "merge_into_map" =>
        /\ \A k \in 0..Len(call.merges) : \A line \in MergedLines :
            LET into == RefMergedInto(k, line)
            IN  IF into = {}
                THEN line \notin DOMAIN RefMapAfter(k)
                ELSE /\ line \in DOMAIN RefMapAfter(k)
                     /\ IF \E j \in into : call.merges[j].codes.all
                        THEN RefMapAfter(k)[line].all
                        ELSE /\ ~RefMapAfter(k)[line].all
                             /\ RefMapAfter(k)[line].codes
                                    = UNION { call.merges[j].codes.codes : j \in into }
        /\ \A k \in 1..Len(call.merges) :
            \A line \in MergedLines : \A c \in ProbeCodes :
                is_suppressed_in(RefMapAfter(k - 1), c, line)
                    => is_suppressed_in(RefMapAfter(k), c, line)

\* codes were merged into a line that had every rule suppressed, after codes
\* and `all rules` had been merged into it: every rule is still suppressed
C40_Witness ==
    /\ call.fn = "merge_into_map"
    /\ call.merges = <<[line |-> 1, codes |-> SomeCodes({E0001})],
                       [line |-> 1, codes |-> AllRules],
                       [line |-> 1, codes |-> SomeCodes({E0002})]>>
    /\ returned.maps[4][1] = AllRules
    /\ is_suppressed_in(returned.maps[4], E9999, 1)
    /\ ~is_suppressed_in(returned.maps[2], E9999, 1)

====
